---- MODULE Spec2Model ----
(***************************************************************************)
(* Model of the chat panel (ResearchAssistant.tsx) and of the editor's     *)
(* line diff (LaTeXEditor.tsx).  A JavaScript string is a sequence of      *)
(* one-character strings; indices in the string helpers are 0-based, as in *)
(* the source.                                                             *)
(***************************************************************************)
EXTENDS Integers, Sequences, FiniteSets, TLC

-----------------------------------------------------------------------------
(* Bounds of the model *)

\* sends and chunk reads in one run
MaxInputs == 3
\* pieces concatenated into an input text of the extractor
MaxPieces == 4
\* characters of an input text of the line diff
MaxTextLen == 3
\* characters of a payload given to the decoder
MaxChars == 3

-----------------------------------------------------------------------------
(* String helpers: String.prototype.indexOf / slice / trim* / split / join *)

Whitespace == {" ", "\n", "\t"}

Max(a, b) == IF a >= b THEN a ELSE b

\* s.slice(a, b) for 0 <= a, b (0-based, b exclusive, clamped to the length)
Slice(s, a, b) ==
    LET hi == IF b > Len(s) THEN Len(s) ELSE b
    IN  IF a >= hi THEN <<>> ELSE SubSeq(s, a + 1, hi)

\* s.startsWith(p)
StartsWith(s, p) == Len(s) >= Len(p) /\ SubSeq(s, 1, Len(p)) = p

\* s.indexOf(pat, from): the least 0-based i >= from at which pat occurs, or -1
IndexOf(s, pat, from) ==
    LET hits == {i \in from .. (Len(s) - Len(pat)) :
                    SubSeq(s, i + 1, i + Len(pat)) = pat}
    IN  IF hits = {} THEN -1
        ELSE CHOOSE i \in hits : \A j \in hits : i <= j

RECURSIVE TrimEnd(_)
TrimEnd(s) ==
    IF s # <<>> /\ s[Len(s)] \in Whitespace
    THEN TrimEnd(SubSeq(s, 1, Len(s) - 1))
    ELSE s

RECURSIVE TrimStart(_)
TrimStart(s) ==
    IF s # <<>> /\ s[1] \in Whitespace THEN TrimStart(Tail(s)) ELSE s

Trim(s) == TrimStart(TrimEnd(s))

\* parts.filter(Boolean): the empty string is falsy
RECURSIVE FilterBoolean(_)
FilterBoolean(parts) ==
    IF parts = <<>> THEN <<>>
    ELSE IF Head(parts) = <<>> THEN FilterBoolean(Tail(parts))
         ELSE <<Head(parts)>> \o FilterBoolean(Tail(parts))

\* parts.join(sep)
RECURSIVE Join(_, _)
Join(parts, sep) ==
    IF parts = <<>> THEN <<>>
    ELSE IF Len(parts) = 1 THEN parts[1]
         ELSE parts[1] \o sep \o Join(Tail(parts), sep)

\* s.split(sep) for a one-character sep, scanning the characters left to right
RECURSIVE SplitFrom(_, _, _, _)
SplitFrom(s, sep, i, cur) ==
    IF i > Len(s) THEN <<cur>>
    ELSE IF s[i] = sep THEN <<cur>> \o SplitFrom(s, sep, i + 1, <<>>)
         ELSE SplitFrom(s, sep, i + 1, Append(cur, s[i]))

SplitLines(s) == SplitFrom(s, "\n", 1, <<>>)

-----------------------------------------------------------------------------
(* Constants of ResearchAssistant.tsx *)

APPLY_CODE_START ==
    <<"<","<","<","A","P","P","L","Y","_","C","O","D","E",">",">",">">>
APPLY_CODE_END ==
    <<"<","<","<","E","N","D","_","C","O","D","E",">",">",">">>
APPLYING_CODE_MARKER ==
    <<"[","[","A","P","P","L","Y","I","N","G","_","C","O","D","E","]","]">>
APPLIED_CODE_MARKER ==
    <<"[","[","A","P","P","L","I","E","D","_","C","O","D","E","]","]">>

\* an absent (undefined) optional string; no text contains this character
Undefined == <<"undefined">>

ParagraphBreak == <<"\n", "\n">>

-----------------------------------------------------------------------------
(* processApplyCodeBlocksForDisplay *)

\* mutant: the end sentinel is looked for from the beginning of the text
ExtractorEndAnywhere(raw, showMarker) ==
    LET startIdx == IndexOf(raw, APPLY_CODE_START, 0)
        endIdx == IndexOf(raw, APPLY_CODE_END, 0)
    IN  IF startIdx = -1
        THEN [display |-> raw, extractedCode |-> Undefined, hasCompleteBlock |-> FALSE]
        ELSE IF endIdx = -1
        THEN [display |-> TrimEnd(Slice(raw, 0, startIdx)),
              extractedCode |-> Undefined, hasCompleteBlock |-> FALSE]
        ELSE [display |-> TrimEnd(Slice(raw, 0, startIdx)),
              extractedCode |->
                  Trim(Slice(raw, startIdx + Len(APPLY_CODE_START), endIdx)),
              hasCompleteBlock |-> TRUE]

\* mutant: in the streaming state the applying marker is shown whatever
\* showMarker is
ExtractorAlwaysMarks(raw, showMarker) ==
    LET startIdx == IndexOf(raw, APPLY_CODE_START, 0)
        endIdx == IndexOf(raw, APPLY_CODE_END, startIdx + Len(APPLY_CODE_START))
        before == TrimEnd(Slice(raw, 0, startIdx))
    IN  IF startIdx = -1
        THEN [display |-> raw, extractedCode |-> Undefined, hasCompleteBlock |-> FALSE]
        ELSE IF endIdx = -1
        THEN [display |-> Join(FilterBoolean(<<before, APPLYING_CODE_MARKER>>),
                               ParagraphBreak),
              extractedCode |-> Undefined, hasCompleteBlock |-> FALSE]
        ELSE [display |-> before,
              extractedCode |->
                  Trim(Slice(raw, startIdx + Len(APPLY_CODE_START), endIdx)),
              hasCompleteBlock |-> TRUE]

\* mutant: the block ends at the last end sentinel of the text
ExtractorLastEnd(raw, showMarker) ==
    LET startIdx == IndexOf(raw, APPLY_CODE_START, 0)
        ends == {i \in (startIdx + Len(APPLY_CODE_START)) .. (Len(raw) - Len(APPLY_CODE_END)) :
                    SubSeq(raw, i + 1, i + Len(APPLY_CODE_END)) = APPLY_CODE_END}
        endIdx == IF ends = {} THEN -1 ELSE CHOOSE i \in ends : \A j \in ends : j <= i
        before == TrimEnd(Slice(raw, 0, startIdx))
    IN  IF startIdx = -1
        THEN [display |-> raw, extractedCode |-> Undefined, hasCompleteBlock |-> FALSE]
        ELSE IF endIdx = -1
        THEN [display |->
                  IF showMarker
                  THEN Join(FilterBoolean(<<before, APPLYING_CODE_MARKER>>),
                            ParagraphBreak)
                  ELSE before,
              extractedCode |-> Undefined, hasCompleteBlock |-> FALSE]
        ELSE LET after == TrimStart(Slice(raw, endIdx + Len(APPLY_CODE_END), Len(raw)))
             IN  [display |->
                      IF showMarker
                      THEN Join(FilterBoolean(<<before, APPLIED_CODE_MARKER, after>>),
                                ParagraphBreak)
                      ELSE Join(FilterBoolean(<<before, after>>), ParagraphBreak),
                  extractedCode |->
                      Trim(Slice(raw, startIdx + Len(APPLY_CODE_START), endIdx)),
                  hasCompleteBlock |-> TRUE]

processApplyCodeBlocksForDisplay(raw, showMarker) ==
    LET startIdx == IndexOf(raw, APPLY_CODE_START, 0)
    IN  IF startIdx = -1
        THEN [display |-> raw, extractedCode |-> Undefined, hasCompleteBlock |-> FALSE]
        ELSE
        LET endIdx == IndexOf(raw, APPLY_CODE_END, startIdx + Len(APPLY_CODE_START))
            before == TrimEnd(Slice(raw, 0, startIdx))
        IN  IF endIdx = -1
            THEN [display |->
                      IF showMarker
                      THEN Join(FilterBoolean(<<before, APPLYING_CODE_MARKER>>),
                                ParagraphBreak)
                      ELSE before,
                  extractedCode |-> Undefined,
                  hasCompleteBlock |-> FALSE]
            ELSE
            LET codeBlock == Trim(Slice(raw, startIdx + Len(APPLY_CODE_START), endIdx))
                after == TrimStart(Slice(raw, endIdx + Len(APPLY_CODE_END), Len(raw)))
            IN  [display |->
                     IF showMarker
                     THEN Join(FilterBoolean(<<before, APPLIED_CODE_MARKER, after>>),
                               ParagraphBreak)
                     ELSE Join(FilterBoolean(<<before, after>>), ParagraphBreak),
                 extractedCode |-> codeBlock,
                 hasCompleteBlock |-> TRUE]

-----------------------------------------------------------------------------
(* computeChangedLines (LaTeXEditor.tsx) *)

\* lines[i] ?? "" for a 0-based i
LineOrEmpty(lines, i) == IF i + 1 <= Len(lines) THEN lines[i + 1] ELSE <<>>

\* the for loop from i up to maxLen, adding i + 1 where the lines differ
RECURSIVE DiffLoop(_, _, _, _, _)
DiffLoop(oldLines, newLines, i, maxLen, changedLines) ==
    IF i >= maxLen THEN changedLines
    ELSE DiffLoop(oldLines, newLines, i + 1, maxLen,
                  IF LineOrEmpty(oldLines, i) # LineOrEmpty(newLines, i)
                  THEN changedLines \cup {i + 1}
                  ELSE changedLines)

\* mutant: the loop stops at the shorter of the two line counts
DiffUpToShorter(oldCode, newCode) ==
    LET oldLines == SplitLines(oldCode)
        newLines == SplitLines(newCode)
        minLen == IF Len(oldLines) <= Len(newLines) THEN Len(oldLines) ELSE Len(newLines)
    IN  DiffLoop(oldLines, newLines, 0, minLen, {})

computeChangedLines(oldCode, newCode) ==
    LET oldLines == SplitLines(oldCode)
        newLines == SplitLines(newCode)
        maxLen == Max(Len(oldLines), Len(newLines))
    IN  DiffLoop(oldLines, newLines, 0, maxLen, {})

-----------------------------------------------------------------------------
(* The chat panel: state of the ResearchAssistant component, of the editor  *)
(* that hosts it, and of the requests in flight                             *)

VARIABLES
    messages,       \* useState<Message[]>
    isLoading,      \* useState(false)
    isStreaming,    \* useState(false)
    error,          \* useState<string | null>
    agentMode,      \* useState(false)
    onApplyCode,    \* whether the optional onApplyCode prop is passed
    code,           \* the editor document (the latexCode prop)
    storage,        \* localStorage[STORAGE_KEY]
    isInitialized,  \* useRef(false)
    now,            \* the last reading of Date.now()
    req,            \* the calls of sendMessageToBackend, in the order made
    inputs,         \* the number of sends and chunk reads so far
    cleared,        \* history: -1, or the number of events all requests had
                    \* received when clearChat last ran with no send since
    refused,        \* history: "none", or why handleSend last returned at
                    \* its guard: "blank" input, or "busy" with a request
    loaded,         \* history: "none", or the kind of value the load effect
                    \* found under the chat-history key
    exIn,           \* extractor under test: its input, flag and results
    exOut,
    diffIn,         \* line diff under test: its two snapshots and result
    diffOut,
    dec,            \* TextDecoder under test: the bytes, its state, its output
    editor          \* the LaTeXEditor component besides its document: its
                    \* state, refs, timers and the document key of storage

chatVars == <<messages, isLoading, isStreaming, error, agentMode, onApplyCode,
              code, storage, isInitialized, now, req, inputs, cleared, refused,
              loaded>>
pureVars == <<exIn, exOut, diffIn, diffOut, dec, editor>>
vars == <<chatVars, pureVars>>

\* null (error state, an absent storage entry)
Null == <<"null">>

\* id "1" is the number 1 here; the ids made from Date.now() are numbers too
DEFAULT_MESSAGE ==
    [id |-> 1, role |-> "assistant", content |-> <<"H","e","l","l","o">>,
     thoughts |-> Undefined, currentThought |-> Undefined,
     appliedCode |-> Undefined, previousCode |-> Undefined,
     codeAccepted |-> "undefined"]

\* a message as the object literals of handleSend and sendMessageToBackend make it
NewMessage(id, role, content) ==
    [id |-> id, role |-> role, content |-> content,
     thoughts |-> Undefined, currentThought |-> Undefined,
     appliedCode |-> Undefined, previousCode |-> Undefined,
     codeAccepted |-> "undefined"]

-----------------------------------------------------------------------------
(* localStorage[STORAGE_KEY]: absent, or the JSON text of a message list.   *)
(* JSON.stringify drops the undefined fields of a message and JSON.parse    *)
(* gives them back as absent, which is Undefined again.                     *)

Absent == [kind |-> "absent", value |-> <<>>]

\* JSON.stringify(messages)
Stringify(msgs) == [kind |-> "array", value |-> msgs]

\* other values a key of storage may hold: the empty string, a text that is
\* not JSON, and the JSON text of a value that is not an array
EmptyText == [kind |-> "empty", value |-> <<>>]
NotJSON == [kind |-> "text", value |-> <<>>]
NotArray == [kind |-> "object", value |-> <<>>]

\* JSON.parse(stored): the value, or a SyntaxError
ParseStored(stored) ==
    IF stored.kind = "array"
    THEN [ok |-> TRUE, isArray |-> TRUE, value |-> stored.value]
    ELSE IF stored.kind = "object"
    THEN [ok |-> TRUE, isArray |-> FALSE, value |-> <<>>]
    ELSE [ok |-> FALSE, isArray |-> FALSE, value |-> <<>>]

\* mutant: an empty stored array becomes the message list
LoadEffectAcceptsEmpty(stored, msgs) ==
    IF stored.kind \in {"absent", "empty"} THEN msgs
    ELSE LET parsed == ParseStored(stored)
         IN  IF parsed.ok /\ parsed.isArray THEN parsed.value ELSE msgs

\* the load effect: the message list after it.  getItem gives null for an
\* absent key, and "" is falsy as well; what JSON.parse throws is caught.
LoadEffect(stored, msgs) ==
    IF stored.kind \in {"absent", "empty"} THEN msgs
    ELSE LET parsed == ParseStored(stored)
         IN  IF ~parsed.ok THEN msgs
             ELSE IF parsed.isArray /\ Len(parsed.value) > 0 THEN parsed.value
             ELSE msgs

\* mutant: the save effect writes the list of the first render
SaveEffectStale(msgs) == Stringify(<<DEFAULT_MESSAGE>>)

\* the save effect: localStorage.setItem(STORAGE_KEY, JSON.stringify(messages)),
\* run after every render in which messages is a new array
SaveEffect(msgs) == Stringify(msgs)

-----------------------------------------------------------------------------
(* The response stream: "data: <json>\n" lines.  The tag is one token, the  *)
(* JSON text of an event is two tokens (the object up to its closing brace, *)
(* and the closing brace), and a chunk boundary may fall between any two    *)
(* tokens.  A field that is absent from the JSON object is "" or false      *)
(* here: the code tests the fields for truthiness.                          *)

Event(c, t, d, e) == [content |-> c, thought |-> t, done |-> d, error |-> e]
NoEvent == Event(<<>>, <<>>, FALSE, <<>>)

Tok(k) == [k |-> k, ev |-> NoEvent]
TAG == Tok("data: ")
CLOSE == Tok("}")
NL == Tok("\n")
Body(ev) == [k |-> "body", ev |-> ev]

\* the line the server writes for an event
Line(ev) == <<TAG, Body(ev), CLOSE, NL>>

\* a tagged line whose JSON text is cut short
MalformedLine == <<TAG, Body(NoEvent), NL>>

\* JSON.parse(text): the object, or a SyntaxError
JSONParse(text) ==
    IF Len(text) = 2 /\ text[1].k = "body" /\ text[2] = CLOSE
    THEN [ok |-> TRUE, data |-> text[1].ev]
    ELSE [ok |-> FALSE, data |-> NoEvent]

\* a JavaScript string in a condition: "" and undefined are falsy
Truthy(str) == str # <<>> /\ str # Undefined

-----------------------------------------------------------------------------
(* One call of sendMessageToBackend: its closure (the values captured when  *)
(* it was called), its local variables, the bytes the server has written    *)
(* that the reader has not delivered yet, and its history: the bytes        *)
(* delivered (wire), the events parsed (received) and the calls made of the *)
(* apply callback (applyCalls); skipped counts the tagged lines that        *)
(* JSON.parse rejected.                                                    *)

NewRequest(aiMessageId) ==
    [pc |-> "fetch",
     aiMessageId |-> aiMessageId,
     agentMode |-> agentMode,
     onApplyCode |-> onApplyCode,
     latexCode |-> code,
     accumulatedContent |-> <<>>,
     accumulatedThoughts |-> <<>>,
     codeApplied |-> FALSE,
     previousCodeSnapshot |-> code,
     buffer |-> <<>>,
     wire |-> <<>>,
     received |-> <<>>,
     skipped |-> 0,
     applyCalls |-> <<>>]

\* mutant: the one-shot guard is not checked
ShouldApplyUnguarded(rq, processed) ==
    /\ rq.agentMode
    /\ processed.hasCompleteBlock
    /\ Truthy(processed.extractedCode)
    /\ rq.onApplyCode

\* mutant: the block is applied whether agent mode is on and the callback
\* passed or not
ShouldApplyWhatever(rq, processed) ==
    /\ ~rq.codeApplied
    /\ processed.hasCompleteBlock
    /\ Truthy(processed.extractedCode)

\* shouldApplyCode / shouldApplyCodeFinal
ShouldApplyCode(rq, processed) ==
    /\ rq.agentMode
    /\ ~rq.codeApplied
    /\ processed.hasCompleteBlock
    /\ Truthy(processed.extractedCode)
    /\ rq.onApplyCode

\* The state the for loop over the lines of a chunk works on: the message
\* list, isStreaming, the editor document and the request's record; rendered
\* says that setMessages was called, broke that the loop was left at a break.
LoopState(msgs, streaming, doc, rq) ==
    [messages |-> msgs, isStreaming |-> streaming, code |-> doc, rq |-> rq,
     rendered |-> FALSE, broke |-> FALSE]

\* mutant: the pass sanitizes the display and never calls onApplyCode
SanitizeOnly(st) ==
    LET rq == st.rq
        processed == processApplyCodeBlocksForDisplay(rq.accumulatedContent,
                                                      rq.agentMode)
        update(m) ==
            IF m.id = rq.aiMessageId
            THEN [m EXCEPT !.content = processed.display]
            ELSE m
    IN  [st EXCEPT
            !.rendered = TRUE,
            !.messages = [i \in 1 .. Len(st.messages) |-> update(st.messages[i])]]

\* mutant: a pass that finds no message of the request's id adds one
SanitizeUpserts(st) ==
    LET rq == st.rq
        processed == processApplyCodeBlocksForDisplay(rq.accumulatedContent,
                                                      rq.agentMode)
        shouldApplyCode == ShouldApplyCode(rq, processed)
        update(m) ==
            IF m.id = rq.aiMessageId
            THEN [m EXCEPT !.content = processed.display]
            ELSE m
        found == \E i \in 1 .. Len(st.messages) : st.messages[i].id = rq.aiMessageId
        placeholder ==
            [id |-> rq.aiMessageId, role |-> "assistant",
             content |-> processed.display,
             thoughts |-> Undefined, currentThought |-> Undefined,
             appliedCode |-> Undefined, previousCode |-> Undefined,
             codeAccepted |-> "undefined"]
    IN  [st EXCEPT
            !.code = IF shouldApplyCode THEN processed.extractedCode ELSE @,
            !.rq.codeApplied = IF shouldApplyCode THEN TRUE ELSE @,
            !.rq.applyCalls = IF shouldApplyCode
                              THEN Append(@, processed.extractedCode) ELSE @,
            !.rendered = TRUE,
            !.messages = IF found
                         THEN [i \in 1 .. Len(st.messages) |-> update(st.messages[i])]
                         ELSE Append(st.messages, placeholder)]

\* mutant: the pass reads the agent mode of the panel, not the one of the send
SanitizeWithCurrentMode(st) ==
    LET rq == [st.rq EXCEPT !.agentMode = agentMode]
        processed == processApplyCodeBlocksForDisplay(rq.accumulatedContent,
                                                      rq.agentMode)
        shouldApplyCode == ShouldApplyCode(rq, processed)
        update(m) ==
            IF m.id = rq.aiMessageId
            THEN IF shouldApplyCode
                 THEN [m EXCEPT !.content = processed.display,
                                !.previousCode = rq.previousCodeSnapshot,
                                !.appliedCode = processed.extractedCode]
                 ELSE [m EXCEPT !.content = processed.display]
            ELSE m
    IN  [st EXCEPT
            !.code = IF shouldApplyCode THEN processed.extractedCode ELSE @,
            !.rq.codeApplied = IF shouldApplyCode THEN TRUE ELSE @,
            !.rq.applyCalls = IF shouldApplyCode
                              THEN Append(@, processed.extractedCode) ELSE @,
            !.rendered = TRUE,
            !.messages = [i \in 1 .. Len(st.messages) |-> update(st.messages[i])]]

\* the sanitize-and-apply pass of the content branch and of the done branch:
\* run the extractor on the accumulated content, call onApplyCode if
\* shouldApplyCode, and set the in-flight message's content to the display
SanitizeAndApply(st) ==
    LET rq == st.rq
        processed == processApplyCodeBlocksForDisplay(rq.accumulatedContent,
                                                      rq.agentMode)
        shouldApplyCode == ShouldApplyCode(rq, processed)
        update(m) ==
            IF m.id = rq.aiMessageId
            THEN IF shouldApplyCode
                 THEN [m EXCEPT !.content = processed.display,
                                !.previousCode = rq.previousCodeSnapshot,
                                !.appliedCode = processed.extractedCode]
                 ELSE [m EXCEPT !.content = processed.display]
            ELSE m
    IN  [st EXCEPT
            !.code = IF shouldApplyCode THEN processed.extractedCode ELSE @,
            !.rq.codeApplied = IF shouldApplyCode THEN TRUE ELSE @,
            !.rq.applyCalls = IF shouldApplyCode
                              THEN Append(@, processed.extractedCode) ELSE @,
            !.rendered = TRUE,
            !.messages = [i \in 1 .. Len(st.messages) |-> update(st.messages[i])]]

\* mutant: the delta replaces the accumulated thoughts
ThoughtBranchOverwrites(data, st) ==
    LET update(m) ==
            IF m.id = st.rq.aiMessageId
            THEN [m EXCEPT !.thoughts = data.thought, !.currentThought = data.thought]
            ELSE m
    IN  [st EXCEPT
            !.rq.accumulatedThoughts = data.thought,
            !.rendered = TRUE,
            !.messages = [i \in 1 .. Len(st.messages) |-> update(st.messages[i])]]

\* if (data.thought) { ... }
ThoughtBranch(data, st) ==
    LET thoughts == st.rq.accumulatedThoughts \o data.thought
        update(m) ==
            IF m.id = st.rq.aiMessageId
            THEN [m EXCEPT !.thoughts = thoughts, !.currentThought = data.thought]
            ELSE m
    IN  [st EXCEPT
            !.rq.accumulatedThoughts = thoughts,
            !.rendered = TRUE,
            !.messages = [i \in 1 .. Len(st.messages) |-> update(st.messages[i])]]

\* mutant: the delta replaces the accumulated content
ContentBranchOverwrites(data, st) ==
    SanitizeAndApply(
        [st EXCEPT
            !.isStreaming = IF st.rq.accumulatedContent = <<>> THEN TRUE ELSE @,
            !.rq.accumulatedContent = data.content])

\* if (data.content) { ... }
ContentBranch(data, st) ==
    SanitizeAndApply(
        [st EXCEPT
            !.isStreaming = IF st.rq.accumulatedContent = <<>> THEN TRUE ELSE @,
            !.rq.accumulatedContent = @ \o data.content])

\* mutant: the pass of the done event does not test codeApplied
DoneBranchReapplies(st) ==
    LET rq == st.rq
        processed == processApplyCodeBlocksForDisplay(rq.accumulatedContent,
                                                      rq.agentMode)
        shouldApplyCodeFinal == ShouldApplyUnguarded(rq, processed)
        update(m) ==
            IF m.id = rq.aiMessageId
            THEN IF shouldApplyCodeFinal
                 THEN [m EXCEPT !.content = processed.display,
                                !.previousCode = rq.previousCodeSnapshot,
                                !.appliedCode = processed.extractedCode]
                 ELSE [m EXCEPT !.content = processed.display]
            ELSE m
    IN  [st EXCEPT
            !.code = IF shouldApplyCodeFinal THEN processed.extractedCode ELSE @,
            !.rq.codeApplied = IF shouldApplyCodeFinal THEN TRUE ELSE @,
            !.rq.applyCalls = IF shouldApplyCodeFinal
                              THEN Append(@, processed.extractedCode) ELSE @,
            !.rendered = TRUE,
            !.broke = TRUE,
            !.messages = [i \in 1 .. Len(st.messages) |-> update(st.messages[i])]]

\* if (data.done) { ...; break; }
DoneBranch(st) == [SanitizeAndApply(st) EXCEPT !.broke = TRUE]

\* the body of the try after JSON.parse: a truthy data.error throws, and the
\* catch around the body swallows what is thrown
HandleData(data, st) ==
    IF Truthy(data.error) THEN st
    ELSE LET s1 == IF Truthy(data.thought) THEN ThoughtBranch(data, st) ELSE st
             s2 == IF Truthy(data.content) THEN ContentBranch(data, s1) ELSE s1
         IN  IF data.done THEN DoneBranch(s2) ELSE s2

\* mutant: a tagged line that does not parse ends the handling of the chunk
ProcessLineAborts(line, st) ==
    IF ~StartsWith(line, <<TAG>>) THEN st
    ELSE LET parsed == JSONParse(Slice(line, 1, Len(line)))
         IN  IF ~parsed.ok THEN [st EXCEPT !.rq.skipped = @ + 1, !.broke = TRUE]
             ELSE HandleData(parsed.data,
                             [st EXCEPT !.rq.received = Append(@, parsed.data)])

\* one iteration of for (const line of lines)
ProcessLine(line, st) ==
    IF ~StartsWith(line, <<TAG>>) THEN st
    ELSE LET parsed == JSONParse(Slice(line, 1, Len(line)))
         IN  IF ~parsed.ok THEN [st EXCEPT !.rq.skipped = @ + 1]
             ELSE HandleData(parsed.data,
                             [st EXCEPT !.rq.received = Append(@, parsed.data)])

\* for (const line of lines) { ... }, left at a break
RECURSIVE ProcessLines(_, _)
ProcessLines(lines, st) ==
    IF lines = <<>> \/ st.broke THEN st
    ELSE ProcessLines(Tail(lines), ProcessLine(Head(lines), st))

-----------------------------------------------------------------------------
(* new TextDecoder() and decoder.decode(value, { stream: true }): the UTF-8 *)
(* decoder of the platform.  A byte is a number in 0 .. 255, the decoded    *)
(* text is a sequence of code points.  The decoder keeps, between two      *)
(* calls, the bytes of a character it has seen the beginning of.            *)

\* U+FFFD, what the decoder emits for bytes that are not UTF-8
Replacement == <<65533>>

\* the decoder between two characters
DecoderReset == [needed |-> 0, seen |-> 0, cp |-> 0, lower |-> 128, upper |-> 191]

\* a lead byte: the decoder's state after it, or what is emitted for it
LeadByte(byte) ==
    IF byte <= 127 THEN [state |-> DecoderReset, out |-> <<byte>>]
    ELSE IF byte >= 194 /\ byte <= 223
    THEN [state |-> [DecoderReset EXCEPT !.needed = 1, !.cp = byte - 192],
          out |-> <<>>]
    ELSE IF byte >= 224 /\ byte <= 239
    THEN [state |-> [DecoderReset EXCEPT !.needed = 2, !.cp = byte - 224,
                                         !.lower = IF byte = 224 THEN 160 ELSE 128,
                                         !.upper = IF byte = 237 THEN 159 ELSE 191],
          out |-> <<>>]
    ELSE IF byte >= 240 /\ byte <= 244
    THEN [state |-> [DecoderReset EXCEPT !.needed = 3, !.cp = byte - 240,
                                         !.lower = IF byte = 240 THEN 144 ELSE 128,
                                         !.upper = IF byte = 244 THEN 143 ELSE 191],
          out |-> <<>>]
    ELSE [state |-> DecoderReset, out |-> Replacement]

\* the decoder's handler for one byte
DecodeByte(state, byte) ==
    IF state.needed = 0 THEN LeadByte(byte)
    ELSE IF byte < state.lower \/ byte > state.upper
    THEN \* the character is broken off: U+FFFD, and the byte is handled anew
         [state |-> LeadByte(byte).state, out |-> Replacement \o LeadByte(byte).out]
    ELSE LET cp == state.cp * 64 + (byte - 128)
         IN  IF state.seen + 1 = state.needed
             THEN [state |-> DecoderReset, out |-> <<cp>>]
             ELSE [state |-> [state EXCEPT !.seen = @ + 1, !.cp = cp,
                                           !.lower = 128, !.upper = 191],
                   out |-> <<>>]

RECURSIVE DecodeBytes(_, _, _)
DecodeBytes(bytes, state, out) ==
    IF bytes = <<>> THEN [state |-> state, out |-> out]
    ELSE LET r == DecodeByte(state, Head(bytes))
         IN  DecodeBytes(Tail(bytes), r.state, out \o r.out)

\* decoder.decode(value), without the stream option: the end of the input
\* ends the text, and the beginning of a character left over is U+FFFD
DecodeWhole(state, value) ==
    LET r == DecodeBytes(value, state, <<>>)
    IN  [state |-> DecoderReset,
         out |-> IF r.state.needed # 0 THEN r.out \o Replacement ELSE r.out]

\* decoder.decode(value, { stream: true }): the beginning of a character left
\* over at the end of value is kept for the next call
DecodeStream(state, value) == DecodeBytes(value, state, <<>>)

\* the bytes the server writes for a code point: its UTF-8 encoding
EncodeCodePoint(cp) ==
    IF cp < 128 THEN <<cp>>
    ELSE IF cp < 2048 THEN <<192 + (cp \div 64), 128 + (cp % 64)>>
    ELSE IF cp < 65536
    THEN <<224 + (cp \div 4096), 128 + ((cp \div 64) % 64), 128 + (cp % 64)>>
    ELSE <<240 + (cp \div 262144), 128 + ((cp \div 4096) % 64),
           128 + ((cp \div 64) % 64), 128 + (cp % 64)>>

RECURSIVE EncodeText(_)
EncodeText(text) ==
    IF text = <<>> THEN <<>>
    ELSE EncodeCodePoint(Head(text)) \o EncodeText(Tail(text))

-----------------------------------------------------------------------------
(* The inputs of the chat panel *)

\* what the user types before a send
Inputs == {<<"h", "i">>, <<" ">>}

\* the editor document when the panel is constructed
InitialCode == <<"d", "o", "c">>

InitialStorage == {Absent}

\* the events a server sends
ServerEvents ==
    { Event(<<"a">>, <<>>, FALSE, <<>>),
      Event(APPLY_CODE_START, <<>>, FALSE, <<>>),
      Event(APPLY_CODE_END, <<>>, FALSE, <<>>),
      Event(APPLY_CODE_START \o <<"x">> \o APPLY_CODE_END, <<>>, FALSE, <<>>),
      Event(<<>>, <<"t">>, FALSE, <<>>),
      Event(<<>>, <<>>, TRUE, <<>>),
      Event(<<>>, <<>>, FALSE, <<"e", "r", "r">>) }

\* what the server writes between two reads: nothing, one more line, or a
\* line cut short and a line after it
ServerWrites ==
    {<<>>, MalformedLine \o Line(Event(<<"a">>, <<>>, FALSE, <<>>))}
       \cup {Line(ev) : ev \in ServerEvents}

\* err.message of a rejected fetch and of a rejected read
NetworkError == <<"n", "e", "t">>
\* errData.detail of a response that is not ok
Detail == <<"5", "0", "0">>

\* Date.now() at a send.  The user types between two sends, so the clock has
\* moved on by more than a millisecond and the reading is later than every
\* id made before; ids are only ever compared for equality.
Clock == now + 2

\* history: the number of events parsed so far, over all requests
RECURSIVE SumReceived(_)
SumReceived(rs) ==
    IF rs = <<>> THEN 0 ELSE Len(Head(rs).received) + SumReceived(Tail(rs))

TotalReceived == SumReceived(req)

-----------------------------------------------------------------------------
(* Actions of the chat panel *)

\* The two mount effects, in order: the load effect (the stored history, if it
\* parses to a non-empty array, becomes the message list) and the save effect
\* of the renders that follow.
Mount ==
    /\ ~isInitialized
    /\ isInitialized' = TRUE
    /\ messages' = LoadEffect(storage, messages)
    /\ loaded' = storage.kind
    /\ storage' = SaveEffect(messages')
    /\ UNCHANGED <<isLoading, isStreaming, error, agentMode, onApplyCode, code,
                   now, req, inputs, cleared, refused, pureVars>>

\* the agent mode button: setAgentMode(!agentMode)
ToggleAgentMode ==
    /\ isInitialized
    /\ agentMode' = ~agentMode
    /\ UNCHANGED <<messages, isLoading, isStreaming, error, onApplyCode, code,
                   storage, isInitialized, now, req, inputs, cleared, refused,
                   loaded, pureVars>>

\* handleSend past its guard, up to the first await of sendMessageToBackend.
\* Date.now() reads t; the second reading, made in the same synchronous run,
\* is t again, so that t + 1 is the id of the placeholder.
Send(input, t) ==
    /\ inputs < MaxInputs
    /\ inputs' = inputs + 1
    /\ cleared' = -1
    /\ now' = t
    /\ LET userMessage == NewMessage(t, "user", Trim(input))
           aiMessage == NewMessage(t + 1, "assistant", <<>>)
       IN  /\ messages' = messages \o <<userMessage, aiMessage>>
           /\ req' = Append(req, NewRequest(t + 1))
    /\ isLoading' = TRUE
    /\ error' = Null
    /\ storage' = SaveEffect(messages')
    /\ UNCHANGED <<isStreaming, agentMode, onApplyCode, code, isInitialized,
                   refused, loaded, pureVars>>

\* the send with the isLoading test of the guard bypassed
BypassedSend(input, t) ==
    /\ isInitialized
    /\ Trim(input) # <<>>
    /\ Send(input, t)

\* mutant: handleSend does not test isLoading
handleSendUnguarded(input, t) == BypassedSend(input, t)

\* handleSend with the input typed: it returns at once when the input is
\* blank or a request is outstanding.  isLoading is the value of the last
\* render: what a handler sets is rendered before the next event is handled.
handleSend(input, t) ==
    /\ isInitialized
    /\ IF Trim(input) = <<>> \/ isLoading
       THEN /\ refused' = IF isLoading THEN "busy" ELSE "blank"
            /\ UNCHANGED <<messages, isLoading, isStreaming, error, agentMode,
                           onApplyCode, code, storage, isInitialized, now, req,
                           inputs, cleared, loaded, pureVars>>
       ELSE Send(input, t)

\* the send button: onClick={handleSend}, disabled while a request is
\* outstanding or the input is blank
SendClick(input, t) ==
    /\ ~(isLoading \/ Trim(input) = <<>>)
    /\ handleSend(input, t)

\* the Enter key in the text input: handleSend() whatever the state
SendEnter(input, t) == handleSend(input, t)

\* mutant: the catch removes the message of the request whatever its content
CatchRemovesAny(r, message) ==
    /\ error' = message
    /\ messages' = SelectSeq(messages, LAMBDA m : m.id # req[r].aiMessageId)
    /\ isLoading' = FALSE
    /\ isStreaming' = FALSE
    /\ req' = [req EXCEPT ![r].pc = "ended"]
    /\ storage' = SaveEffect(messages')
    /\ UNCHANGED <<agentMode, onApplyCode, code, isInitialized, now, inputs, cleared,
                   refused, loaded, pureVars>>

\* catch (err) { setError(err.message); remove the empty AI message }
\* finally { setIsLoading(false); setIsStreaming(false) }
CatchAndFinally(r, message) ==
    /\ error' = message
    /\ messages' = SelectSeq(messages,
                       LAMBDA m : m.id # req[r].aiMessageId \/ m.content # <<>>)
    /\ isLoading' = FALSE
    /\ isStreaming' = FALSE
    /\ req' = [req EXCEPT ![r].pc = "ended"]
    /\ storage' = SaveEffect(messages')
    /\ UNCHANGED <<agentMode, onApplyCode, code, isInitialized, now, inputs, cleared,
                   refused, loaded, pureVars>>

\* await fetch(...) rejects
FetchRejects(r) ==
    /\ req[r].pc = "fetch"
    /\ CatchAndFinally(r, NetworkError)

\* !response.ok: throw new Error(errData.detail || ...)
ResponseNotOk(r) ==
    /\ req[r].pc = "fetch"
    /\ CatchAndFinally(r, Detail)

\* the response is ok and has a body: the locals are set, the loop is entered
FetchOk(r) ==
    /\ req[r].pc = "fetch"
    /\ req' = [req EXCEPT ![r].pc = "read"]
    /\ UNCHANGED <<messages, isLoading, isStreaming, error, agentMode, onApplyCode,
                   code, storage, isInitialized, now, inputs, cleared, refused,
                   loaded, pureVars>>

\* reader.read() gives a chunk: the first k of the bytes written and not yet
\* delivered.  The chunk is decoded (the stream is ASCII, one character a byte),
\* split at "\n", and its lines are processed.
ReadChunk(r, written, k) ==
    /\ req[r].pc = "read"
    /\ inputs < MaxInputs
    /\ inputs' = inputs + 1
    /\ LET bytes == req[r].buffer \o written
           chunk == SubSeq(bytes, 1, k)
           lines == SplitFrom(chunk, NL, 1, <<>>)
           rq == [req[r] EXCEPT !.buffer = SubSeq(bytes, k + 1, Len(bytes)),
                                !.wire = @ \o chunk]
           st == ProcessLines(lines, LoopState(messages, isStreaming, code, rq))
       IN  /\ k \in 1 .. Len(bytes)
           /\ messages' = st.messages
           /\ isStreaming' = st.isStreaming
           /\ code' = st.code
           /\ req' = [req EXCEPT ![r] = st.rq]
           /\ storage' = IF st.rendered THEN SaveEffect(messages') ELSE storage
    /\ UNCHANGED <<isLoading, error, agentMode, onApplyCode, isInitialized, now,
                   cleared, refused, loaded, pureVars>>

\* reader.read() gives done: break, then finally
ReadDone(r) ==
    /\ req[r].pc = "read"
    /\ req[r].buffer = <<>>
    /\ req' = [req EXCEPT ![r].pc = "ended"]
    /\ isLoading' = FALSE
    /\ isStreaming' = FALSE
    /\ UNCHANGED <<messages, error, agentMode, onApplyCode, code, storage,
                   isInitialized, now, inputs, cleared, refused, loaded, pureVars>>

\* reader.read() rejects: the transport failed
ReadRejects(r) ==
    /\ req[r].pc = "read"
    /\ CatchAndFinally(r, NetworkError)

\* clearChat: setMessages([DEFAULT_MESSAGE]) and localStorage.removeItem; the
\* list is a new array, so the save effect runs after the handler and writes
\* the key again
clearChat ==
    /\ isInitialized
    /\ messages' = <<DEFAULT_MESSAGE>>
    /\ LET removed == Absent
       IN  storage' = SaveEffect(messages')
    /\ cleared' = TotalReceived
    /\ UNCHANGED <<isLoading, isStreaming, error, agentMode, onApplyCode, code,
                   isInitialized, now, req, inputs, refused, loaded, pureVars>>

\* the Accept and Reject buttons of a message are rendered when its content,
\* sanitized once more by ContentWithAppliedCode, holds the applied marker
\* and the message is not decided yet
ShowsApplied(m) ==
    /\ m.role = "assistant"
    /\ m.content # <<>>
    /\ IndexOf(processApplyCodeBlocksForDisplay(m.content, FALSE).display,
               APPLIED_CODE_MARKER, 0) # -1
    /\ m.codeAccepted = "undefined"

\* handleAcceptChanges(messageId): codeAccepted: true
handleAcceptChanges(messageId) ==
    /\ messages' = [i \in 1 .. Len(messages) |->
                       IF messages[i].id = messageId
                       THEN [messages[i] EXCEPT !.codeAccepted = "true"]
                       ELSE messages[i]]
    /\ storage' = SaveEffect(messages')
    /\ UNCHANGED <<isLoading, isStreaming, error, agentMode, onApplyCode, code,
                   isInitialized, now, req, inputs, cleared, refused, loaded,
                   pureVars>>

\* handleRejectChanges(messageId, previousCode): onRevertCode is passed by
\* LaTeXEditor and is setCode; then codeAccepted: false
handleRejectChanges(messageId, previousCode) ==
    /\ code' = previousCode
    /\ messages' = [i \in 1 .. Len(messages) |->
                       IF messages[i].id = messageId
                       THEN [messages[i] EXCEPT !.codeAccepted = "false"]
                       ELSE messages[i]]
    /\ storage' = SaveEffect(messages')
    /\ UNCHANGED <<isLoading, isStreaming, error, agentMode, onApplyCode,
                   isInitialized, now, req, inputs, cleared, refused, loaded,
                   pureVars>>

\* the Accept button of the i-th message: handleAccept of MessageItem is
\* defined when appliedCode is truthy and the message is not decided
handleAccept(i) ==
    /\ isInitialized
    /\ ShowsApplied(messages[i])
    /\ Truthy(messages[i].appliedCode)
    /\ messages[i].codeAccepted = "undefined"
    /\ handleAcceptChanges(messages[i].id)

\* mutant: the Reject button stays once the message is decided
handleRejectAlways(i) ==
    /\ isInitialized
    /\ Truthy(messages[i].previousCode)
    /\ handleRejectChanges(messages[i].id, messages[i].previousCode)

\* the Reject button of the i-th message: handleReject of MessageItem is
\* defined when previousCode is truthy and the message is not decided
handleReject(i) ==
    /\ isInitialized
    /\ ShowsApplied(messages[i])
    /\ Truthy(messages[i].previousCode)
    /\ messages[i].codeAccepted = "undefined"
    /\ handleRejectChanges(messages[i].id, messages[i].previousCode)

-----------------------------------------------------------------------------
(* The extractor and the line diff on their own: an input is drawn, the     *)
(* function is applied                                                      *)

Pieces == {APPLY_CODE_START, APPLY_CODE_END, <<"a">>, <<" ">>}

RECURSIVE Flatten(_)
Flatten(parts) == IF parts = <<>> THEN <<>> ELSE Head(parts) \o Flatten(Tail(parts))

\* the texts made of at most MaxPieces pieces
ExtractorInputs ==
    {Flatten(ps) : ps \in UNION {[1 .. n -> Pieces] : n \in 0 .. MaxPieces}}

DiffChars == {"a", "b", "\n"}

\* the texts of at most MaxTextLen characters
DiffInputs == UNION {[1 .. n -> DiffChars] : n \in 0 .. MaxTextLen}

ExIdle == [raw |-> <<>>, showMarker |-> FALSE]
DiffIdle == [oldCode |-> <<>>, newCode |-> <<>>]
DiffNone == [done |-> FALSE, changedLines |-> {}]

\* the extractor is called on the input text
Extract ==
    /\ exOut = <<>>
    /\ exOut' = <<processApplyCodeBlocksForDisplay(exIn.raw, exIn.showMarker)>>
    /\ UNCHANGED <<chatVars, exIn, diffIn, diffOut, dec, editor>>

\* the extractor is called again, on the display it returned
ExtractAgain ==
    /\ Len(exOut) = 1
    /\ exOut' = Append(exOut,
                    processApplyCodeBlocksForDisplay(exOut[1].display, exIn.showMarker))
    /\ UNCHANGED <<chatVars, exIn, diffIn, diffOut, dec, editor>>

\* the line diff is computed for the two snapshots
Diff ==
    /\ ~diffOut.done
    /\ diffOut' = [done |-> TRUE,
                   changedLines |-> computeChangedLines(diffIn.oldCode, diffIn.newCode)]
    /\ UNCHANGED <<chatVars, exIn, exOut, diffIn, dec, editor>>

\* the code points of a payload: a, e with acute accent, the euro sign, the
\* G clef (one, two, three and four bytes)
PayloadChars == {97, 233, 8364, 119070}

\* the payloads of at most MaxChars characters
Payloads == UNION {[1 .. n -> PayloadChars] : n \in 0 .. MaxChars}

\* the decoder before a stream: text is the payload, rest its bytes not read
\* yet, out the text decoded so far, cut says that a chunk has ended inside a
\* character
DecoderOf(text) ==
    [text |-> text, rest |-> EncodeText(text), state |-> DecoderReset,
     out |-> <<>>, cut |-> FALSE]

DecIdle == DecoderOf(<<>>)

\* reader.read() gives the next k bytes of the payload, and the chunk is
\* decoded: const chunk = decoder.decode(value, { stream: true })
DecodeChunk(k) ==
    /\ k \in 1 .. Len(dec.rest)
    /\ LET value == SubSeq(dec.rest, 1, k)
           r == DecodeStream(dec.state, value)
       IN  dec' = [dec EXCEPT !.rest = SubSeq(dec.rest, k + 1, Len(dec.rest)),
                              !.state = r.state,
                              !.out = @ \o r.out,
                              !.cut = @ \/ r.state.needed # 0]
    /\ UNCHANGED <<chatVars, exIn, exOut, diffIn, diffOut, editor>>

-----------------------------------------------------------------------------
(* The LaTeXEditor component: its document (the variable code), the state   *)
(* and refs that follow it, the timers of window.setTimeout and the         *)
(* document key of storage.  In the specifications of the chat panel the    *)
(* editor is its document alone and this record stays as constructed.       *)

\* the delay of the timer that clears a highlight, in milliseconds
HIGHLIGHT_TIMEOUT == 5000
\* the delay of the auto-save timer, in milliseconds
AUTO_SAVE_DELAY == 10000

\* the clock stops here
MaxTime == 15000
\* the longest time that passes between two events
TimeStep == 2500

DEFAULT_LATEX == InitialCode

\* the texts a user gives the document
EditorDocs == {<<>>, <<"a">>, <<"a", "\n", "b">>}

\* the snapshots a click on an applied-code indicator passes: previousCode and
\* appliedCode of its message
HighlightPairs ==
    { <<<<"a">>, <<"b">>>>,
      <<<<"a">>, <<"a", "\n", "b">>>>,
      <<<<"a">>, <<"a">>>> }

\* the useState initializer of code: localStorage[LATEX_CODE_KEY] (no entry is
\* <<>> here, an entry is <<text>>) unless it is null or "", else the default
InitialDocument(stored) ==
    IF stored # <<>> /\ stored[1] # <<>> THEN stored[1] ELSE DEFAULT_LATEX

\* the component after its first render at the time t
EditorInit(stored, t) ==
    [mounted |-> FALSE,
     savedCodeRef |-> InitialDocument(stored),
     hasUnsavedChanges |-> FALSE,
     stored |-> stored,
     autoSaveTimer |-> 0,            \* null
     highlightTimeoutRef |-> 0,      \* null
     highlightedLines |-> {},
     decorations |-> {},             \* the lines highlightField decorates
     timers |-> {},                  \* the timers set and not fired or cleared
     time |-> t,
     lastEdit |-> -1,                \* history: when code last changed
     lastHighlight |-> -1,           \* history: when a highlight was last set
     dispatched |-> <<>>,            \* history: the effects the last handler
                                     \* dispatched to the view
     cancelled |-> {}]               \* history: the pending timers the last
                                     \* handler cleared

EditorIdle == EditorInit(<<>>, 0)

\* window.setTimeout returns an id that no pending timer has and that no ref
\* holds; 0 stands for null
FreshId(ed) ==
    CHOOSE id \in 1 .. (Cardinality(ed.timers) + 3) :
        /\ \A t \in ed.timers : t.id # id
        /\ id \notin {ed.autoSaveTimer, ed.highlightTimeoutRef}

\* window.clearTimeout(id)
ClearTimeout(timers, id) == {t \in timers : t.id # id}

Timer(id, kind, due, doc) == [id |-> id, kind |-> kind, due |-> due, code |-> doc]

\* the component after a handler that took it from before to after and
\* dispatched the effects given: the two history fields are set
Handled(before, after, effects) ==
    [after EXCEPT !.dispatched = effects,
                  !.cancelled = {t \in before.timers : t.id \notin {u.id : u \in after.timers}}]

\* mutant: the auto-save effect leaves the timer of the last edit pending
AutoSaveEffectKeepsTimer(ed, doc) ==
    IF ~ed.mounted THEN ed
    ELSE LET hasChanges == doc # ed.savedCodeRef
             id == FreshId(ed)
         IN  IF hasChanges
             THEN [ed EXCEPT !.hasUnsavedChanges = TRUE,
                             !.timers = @ \cup
                                 {Timer(id, "save", ed.time + AUTO_SAVE_DELAY, doc)},
                             !.autoSaveTimer = id]
             ELSE [ed EXCEPT !.hasUnsavedChanges = FALSE]

\* the auto-save effect, run after a render in which code or mounted has
\* changed, the cleanup of its last run first: the pending auto-save timer is
\* cleared, and a new one is set when the document differs from savedCodeRef
AutoSaveEffect(ed, doc) ==
    IF ~ed.mounted THEN ed
    ELSE LET hasChanges == doc # ed.savedCodeRef
             dropped == [ed EXCEPT !.timers = ClearTimeout(@, ed.autoSaveTimer)]
             id == FreshId(dropped)
         IN  IF hasChanges
             THEN [dropped EXCEPT !.hasUnsavedChanges = TRUE,
                                  !.timers = @ \cup
                                      {Timer(id, "save", ed.time + AUTO_SAVE_DELAY, doc)},
                                  !.autoSaveTimer = id]
             ELSE [dropped EXCEPT !.hasUnsavedChanges = FALSE]

\* the mount effect: setMounted(true); the auto-save effect runs again
EditorMount ==
    /\ ~editor.mounted
    /\ editor' = Handled(editor,
                          AutoSaveEffect([editor EXCEPT !.mounted = TRUE], code), <<>>)
    /\ UNCHANGED <<chatVars, exIn, exOut, diffIn, diffOut, dec>>

\* setCode(value) with a value that is not the document, and the effects of
\* the render that follows
setCode(value) ==
    /\ editor.mounted
    /\ value # code
    /\ code' = value
    /\ editor' = Handled(editor,
                          [AutoSaveEffect(editor, value) EXCEPT !.lastEdit = editor.time],
                          <<>>)
    /\ UNCHANGED <<messages, isLoading, isStreaming, error, agentMode, onApplyCode,
                   storage, isInitialized, now, req, inputs, cleared, refused,
                   loaded, exIn, exOut, diffIn, diffOut, dec>>

\* the user edits the document: onChange is setCode(value)
onChange(value) == setCode(value)

\* handleSave, from the Save button or Cmd/Ctrl+S: both need hasUnsavedChanges
handleSave ==
    /\ editor.mounted
    /\ editor.hasUnsavedChanges
    /\ editor' = [editor EXCEPT !.stored = <<code>>,
                                !.savedCodeRef = code,
                                !.hasUnsavedChanges = FALSE,
                                !.dispatched = <<>>,
                                !.cancelled = {}]
    /\ UNCHANGED <<chatVars, exIn, exOut, diffIn, diffOut, dec>>

\* the auto-save timer fires: it saves the document of the render that set it
AutoSaveFires(t) ==
    /\ t \in editor.timers
    /\ t.kind = "save"
    /\ t.due <= editor.time
    /\ editor' = [editor EXCEPT !.timers = @ \ {t},
                                !.stored = <<t.code>>,
                                !.savedCodeRef = t.code,
                                !.hasUnsavedChanges = FALSE,
                                !.dispatched = <<>>,
                                !.cancelled = {}]
    /\ UNCHANGED <<chatVars, exIn, exOut, diffIn, diffOut, dec>>

\* highlightField.update on a setHighlightEffect: none for an empty set, else
\* decorations on the lines of the set that the document has
Decorate(lines, doc) == {l \in lines : l >= 1 /\ l <= Len(SplitLines(doc))}

\* mutant: the timer of the highlight before is left pending
handleHighlightKeepsTimer(oldCode, newCode) ==
    /\ editor.mounted
    /\ LET changedLines == computeChangedLines(oldCode, newCode)
           id == FreshId(editor)
       IN  editor' = Handled(editor,
               [editor EXCEPT
                   !.highlightedLines = changedLines,
                   !.decorations = Decorate(changedLines, code),
                   !.timers = @ \cup
                       {Timer(id, "highlight", editor.time + HIGHLIGHT_TIMEOUT, <<>>)},
                   !.highlightTimeoutRef = id,
                   !.lastHighlight = editor.time],
               <<changedLines>>)
    /\ UNCHANGED <<chatVars, exIn, exOut, diffIn, diffOut, dec>>

\* handleHighlightChanges(oldCode, newCode): the changed lines become the
\* highlight and are dispatched to the view, the timer the ref holds is
\* cleared, and a new timer is set
handleHighlightChanges(oldCode, newCode) ==
    /\ editor.mounted
    /\ LET changedLines == computeChangedLines(oldCode, newCode)
           dropped == [editor EXCEPT
                          !.timers = ClearTimeout(@, editor.highlightTimeoutRef)]
           id == FreshId(dropped)
       IN  editor' = Handled(editor,
               [dropped EXCEPT
                   !.highlightedLines = changedLines,
                   !.decorations = Decorate(changedLines, code),
                   !.timers = @ \cup
                       {Timer(id, "highlight", editor.time + HIGHLIGHT_TIMEOUT, <<>>)},
                   !.highlightTimeoutRef = id,
                   !.lastHighlight = editor.time],
               <<changedLines>>)
    /\ UNCHANGED <<chatVars, exIn, exOut, diffIn, diffOut, dec>>

\* the highlight timer fires: the set is emptied and an empty set dispatched
HighlightFires(t) ==
    /\ t \in editor.timers
    /\ t.kind = "highlight"
    /\ t.due <= editor.time
    /\ editor' = [editor EXCEPT !.timers = @ \ {t},
                                !.highlightedLines = {},
                                !.decorations = {},
                                !.dispatched = <<{}>>,
                                !.cancelled = {}]
    /\ UNCHANGED <<chatVars, exIn, exOut, diffIn, diffOut, dec>>

\* the time of the next event: no timer is overdue, and the clock moves on to
\* the next timer or by a step
NextTime(ed) ==
    LET dues == {t.due : t \in ed.timers} \cup {ed.time + TimeStep, MaxTime}
    IN  CHOOSE d \in dues : \A other \in dues : d <= other

Advance ==
    /\ editor.mounted
    /\ editor.time < MaxTime
    /\ \A t \in editor.timers : t.due > editor.time
    /\ editor' = [editor EXCEPT !.time = NextTime(editor),
                                !.dispatched = <<>>,
                                !.cancelled = {}]
    /\ UNCHANGED <<chatVars, exIn, exOut, diffIn, diffOut, dec>>

\* the page is loaded again: the timers are gone with the page, and the
\* component is constructed from what storage holds
Reload ==
    /\ editor.mounted
    /\ code' = InitialDocument(editor.stored)
    /\ editor' = EditorInit(editor.stored, editor.time)
    /\ UNCHANGED <<messages, isLoading, isStreaming, error, agentMode, onApplyCode,
                   storage, isInitialized, now, req, inputs, cleared, refused,
                   loaded, exIn, exOut, diffIn, diffOut, dec>>

-----------------------------------------------------------------------------
(* Specifications *)

\* the chat panel as constructed: useState's initial values, whatever is in
\* storage, and the clock at some time of day
InitPanel ==
    /\ messages = <<DEFAULT_MESSAGE>>
    /\ isLoading = FALSE
    /\ isStreaming = FALSE
    /\ error = Null
    /\ agentMode = FALSE
    /\ isInitialized = FALSE
    /\ now = 1000
    /\ req = <<>>
    /\ inputs = 0
    /\ cleared = -1
    /\ refused = "none"
    /\ loaded = "none"

\* the panel beside an editor whose document is the default
InitChat ==
    /\ InitPanel
    /\ code = InitialCode

\* the panel as LaTeXEditor renders it, with the onApplyCode prop passed
Init ==
    /\ InitChat
    /\ onApplyCode = TRUE
    /\ storage \in InitialStorage
    /\ exIn = ExIdle
    /\ exOut = <<>>
    /\ diffIn = DiffIdle
    /\ diffOut = DiffNone
    /\ dec = DecIdle
    /\ editor = EditorIdle

Next ==
    \/ Mount
    \/ ToggleAgentMode
    \/ \E input \in Inputs : SendClick(input, Clock)
    \/ \E r \in 1 .. Len(req) : FetchRejects(r)
    \/ \E r \in 1 .. Len(req) : ResponseNotOk(r)
    \/ \E r \in 1 .. Len(req) : FetchOk(r)
    \/ \E r \in 1 .. Len(req), written \in ServerWrites :
          \E k \in 1 .. (Len(req[r].buffer) + Len(written)) :
             ReadChunk(r, written, k)
    \/ \E r \in 1 .. Len(req) : ReadDone(r)
    \/ \E r \in 1 .. Len(req) : ReadRejects(r)
    \/ clearChat

Spec == Init /\ [][Next]_vars

InitExtract ==
    /\ InitChat
    /\ onApplyCode = TRUE
    /\ storage = Absent
    /\ exIn \in [raw : ExtractorInputs, showMarker : BOOLEAN]
    /\ exOut = <<>>
    /\ diffIn = DiffIdle
    /\ diffOut = DiffNone
    /\ dec = DecIdle
    /\ editor = EditorIdle

NextExtract == Extract \/ ExtractAgain

SpecExtract == InitExtract /\ [][NextExtract]_vars

InitDiff ==
    /\ InitChat
    /\ onApplyCode = TRUE
    /\ storage = Absent
    /\ exIn = ExIdle
    /\ exOut = <<>>
    /\ diffIn \in [oldCode : DiffInputs, newCode : DiffInputs]
    /\ diffOut = DiffNone
    /\ dec = DecIdle
    /\ editor = EditorIdle

NextDiff == Diff

SpecDiff == InitDiff /\ [][NextDiff]_vars

\* the panel with the sends made from the keyboard, at any time
NextGuard ==
    \/ Mount
    \/ \E input \in Inputs : SendEnter(input, Clock)
    \/ \E r \in 1 .. Len(req) : FetchRejects(r)
    \/ \E r \in 1 .. Len(req) : ResponseNotOk(r)
    \/ \E r \in 1 .. Len(req) : FetchOk(r)
    \/ \E r \in 1 .. Len(req), written \in ServerWrites :
          \E k \in 1 .. (Len(req[r].buffer) + Len(written)) :
             ReadChunk(r, written, k)
    \/ \E r \in 1 .. Len(req) : ReadDone(r)
    \/ \E r \in 1 .. Len(req) : ReadRejects(r)
    \/ clearChat

SpecGuard == Init /\ [][NextGuard]_vars

\* the decoder on its own: a payload is drawn, and its bytes are read in
\* chunks of any sizes
InitDecode ==
    /\ InitChat
    /\ onApplyCode = TRUE
    /\ storage = Absent
    /\ exIn = ExIdle
    /\ exOut = <<>>
    /\ diffIn = DiffIdle
    /\ diffOut = DiffNone
    /\ dec \in {DecoderOf(text) : text \in Payloads}
    /\ editor = EditorIdle

NextDecode == \E k \in 1 .. Len(dec.rest) : DecodeChunk(k)

SpecDecode == InitDecode /\ [][NextDecode]_vars

\* the editor on its own: the document key of storage holds nothing or a
\* text, the user edits and saves, asks for highlights, loads the page again,
\* and time passes
InitEditor ==
    /\ InitPanel
    /\ onApplyCode = TRUE
    /\ storage = Absent
    /\ exIn = ExIdle
    /\ exOut = <<>>
    /\ diffIn = DiffIdle
    /\ diffOut = DiffNone
    /\ dec = DecIdle
    /\ \E stored \in {<<>>, <<<<"a">>>>} :
          /\ editor = EditorInit(stored, 0)
          /\ code = InitialDocument(stored)

NextEditor ==
    \/ EditorMount
    \/ \E value \in EditorDocs : onChange(value)
    \/ handleSave
    \/ \E t \in editor.timers : AutoSaveFires(t)
    \/ \E p \in HighlightPairs : handleHighlightChanges(p[1], p[2])
    \/ \E t \in editor.timers : HighlightFires(t)
    \/ Advance
    \/ Reload

SpecEditor == InitEditor /\ [][NextEditor]_vars

\* the panel with the Accept and Reject buttons in use, and a server that
\* writes a line of text or a line with a whole code block
ReviewWrites ==
    { Line(Event(<<"a">>, <<>>, FALSE, <<>>)),
      Line(Event(APPLY_CODE_START \o <<"x">> \o APPLY_CODE_END, <<>>, FALSE, <<>>)) }

NextReview ==
    \/ Mount
    \/ ToggleAgentMode
    \/ \E input \in Inputs : SendClick(input, Clock)
    \/ \E r \in 1 .. Len(req) : FetchRejects(r)
    \/ \E r \in 1 .. Len(req) : FetchOk(r)
    \/ \E r \in 1 .. Len(req), written \in ReviewWrites :
          \E k \in 1 .. (Len(req[r].buffer) + Len(written)) :
             ReadChunk(r, written, k)
    \/ \E r \in 1 .. Len(req) : ReadDone(r)
    \/ \E r \in 1 .. Len(req) : ReadRejects(r)
    \/ clearChat
    \/ \E i \in 1 .. Len(messages) : handleAccept(i)
    \/ \E i \in 1 .. Len(messages) : handleReject(i)

SpecReview == Init /\ [][NextReview]_vars

\* the panel over every kind of stored history, with another tab of the
\* application writing the key meanwhile
ExampleHistory ==
    <<NewMessage(500, "user", <<"h", "i">>), NewMessage(501, "assistant", <<"a">>)>>

StoredHistories ==
    {Absent, EmptyText, NotJSON, NotArray, Stringify(<<>>), Stringify(ExampleHistory)}

\* localStorage.setItem(STORAGE_KEY, ...) in another tab
ExternalWrite(stored) ==
    /\ storage # stored
    /\ storage' = stored
    /\ UNCHANGED <<messages, isLoading, isStreaming, error, agentMode, onApplyCode,
                   code, isInitialized, now, req, inputs, cleared, refused, loaded,
                   pureVars>>

InitLoad ==
    /\ InitChat
    /\ onApplyCode = TRUE
    /\ storage \in StoredHistories
    /\ exIn = ExIdle
    /\ exOut = <<>>
    /\ diffIn = DiffIdle
    /\ diffOut = DiffNone
    /\ dec = DecIdle
    /\ editor = EditorIdle

NextLoad ==
    \/ Mount
    \/ \E stored \in StoredHistories : ExternalWrite(stored)
    \/ \E input \in Inputs : SendClick(input, Clock)
    \/ \E r \in 1 .. Len(req) : FetchRejects(r)
    \/ \E r \in 1 .. Len(req) : ResponseNotOk(r)
    \/ clearChat

SpecLoad == InitLoad /\ [][NextLoad]_vars

\* the panel with or without the onApplyCode prop, and a server that writes
\* code blocks: an opened one, a whole one, an empty one, and the done event
AgentWrites ==
    { Line(Event(APPLY_CODE_START, <<>>, FALSE, <<>>)),
      Line(Event(APPLY_CODE_START \o <<"x">> \o APPLY_CODE_END, <<>>, FALSE, <<>>)),
      Line(Event(APPLY_CODE_START \o APPLY_CODE_END, <<>>, FALSE, <<>>)),
      Line(Event(<<>>, <<>>, TRUE, <<>>)) }

InitAgent ==
    /\ InitChat
    /\ onApplyCode \in BOOLEAN
    /\ storage = Absent
    /\ exIn = ExIdle
    /\ exOut = <<>>
    /\ diffIn = DiffIdle
    /\ diffOut = DiffNone
    /\ dec = DecIdle
    /\ editor = EditorIdle

NextAgent ==
    \/ Mount
    \/ ToggleAgentMode
    \/ \E input \in Inputs : SendClick(input, Clock)
    \/ \E r \in 1 .. Len(req) : FetchOk(r)
    \/ \E r \in 1 .. Len(req), written \in AgentWrites :
          \E k \in 1 .. (Len(req[r].buffer) + Len(written)) :
             ReadChunk(r, written, k)
    \/ \E r \in 1 .. Len(req) : ReadDone(r)

SpecAgent == InitAgent /\ [][NextAgent]_vars

\* the panel with the isLoading test of the send guard bypassed, and a clock
\* that two sends may read within the same millisecond or the next
InitBypass == Init

NextBypass ==
    \/ Mount
    \/ \E input \in Inputs, t \in now .. (now + 2) : BypassedSend(input, t)
    \/ \E r \in 1 .. Len(req) : FetchOk(r)
    \/ \E r \in 1 .. Len(req), written \in ServerWrites :
          \E k \in 1 .. (Len(req[r].buffer) + Len(written)) :
             ReadChunk(r, written, k)
    \/ \E r \in 1 .. Len(req) : ReadDone(r)

SpecBypass == InitBypass /\ [][NextBypass]_vars

-----------------------------------------------------------------------------
(* Definitions the properties below are stated with *)

Last(seq) == seq[Len(seq)]

IsPrefix(p, q) == Len(p) <= Len(q) /\ SubSeq(q, 1, Len(p)) = p

\* the content deltas of the content events among the events parsed
RECURSIVE ContentDeltas(_)
ContentDeltas(events) ==
    IF events = <<>> THEN <<>>
    ELSE IF ~Truthy(Head(events).error) /\ Truthy(Head(events).content)
         THEN <<Head(events).content>> \o ContentDeltas(Tail(events))
         ELSE ContentDeltas(Tail(events))

\* the positions (1-based) at which pat occurs in str
Occurrences(str, pat) ==
    {i \in 1 .. (Len(str) - Len(pat) + 1) : SubSeq(str, i, i + Len(pat) - 1) = pat}

\* str holds a start sentinel and, after it, an end sentinel
HoldsCompleteBlock(str) ==
    \E i \in Occurrences(str, APPLY_CODE_START) :
       \E j \in Occurrences(str, APPLY_CODE_END) : j >= i + Len(APPLY_CODE_START)

\* the messages of the list that carry request r's id
MessagesOf(r) == {i \in 1 .. Len(messages) : messages[i].id = req[r].aiMessageId}

\* the event parsed last by request r is an error event
LastIsError(r) == req[r].received # <<>> /\ Truthy(Last(req[r].received).error)

\* the events of the newline-terminated tagged lines of valid JSON among the
\* bytes delivered, up to the first done event
RECURSIVE EventsOfLines(_)
EventsOfLines(lines) ==
    IF lines = <<>> THEN <<>>
    ELSE LET line == Head(lines)
             text == SubSeq(line, 2, Len(line))
             valid == /\ Len(line) = 3
                      /\ line[1] = TAG
                      /\ text[1].k = "body"
                      /\ text[2] = CLOSE
         IN  IF ~valid THEN EventsOfLines(Tail(lines))
             ELSE IF line[2].ev.done THEN <<line[2].ev>>
                  ELSE <<line[2].ev>> \o EventsOfLines(Tail(lines))

TerminatedLines(wire) ==
    LET parts == SplitFrom(wire, NL, 1, <<>>)
    IN  SubSeq(parts, 1, Len(parts) - 1)

-----------------------------------------------------------------------------
(* Properties *)

\* C1 (as stated): once the stream of a request has ended, the content of the
\* request's message is the concatenation, in arrival order, of the content
\* deltas it received.
C1_ContentIsConcatenation ==
    \A r \in 1 .. Len(req) :
       req[r].pc = "ended" =>
          \A i \in MessagesOf(r) :
             messages[i].content = Flatten(ContentDeltas(req[r].received))

\* C1 (amended): once the stream of a request has ended, its accumulated
\* content is the concatenation, in arrival order, of the content deltas it
\* received, and the content of the request's message, if the message is still
\* in the list, is the extractor's display of that concatenation: the
\* concatenation itself when it holds no start sentinel.
C1_ContentIsDisplayOfConcatenation ==
    \A r \in 1 .. Len(req) :
       req[r].pc = "ended" =>
          LET concat == Flatten(ContentDeltas(req[r].received))
          IN  /\ req[r].accumulatedContent = concat
              /\ \A i \in MessagesOf(r) :
                    /\ messages[i].content =
                          processApplyCodeBlocksForDisplay(concat, req[r].agentMode).display
                    /\ Occurrences(concat, APPLY_CODE_START) = {}
                          => messages[i].content = concat

\* C1 witness: a stream has ended after two content events or more, the message
\* is in the list and its content is not the concatenation.
C1_Witness ==
    \E r \in 1 .. Len(req) :
       /\ req[r].pc = "ended"
       /\ Len(ContentDeltas(req[r].received)) >= 2
       /\ \E i \in MessagesOf(r) :
             messages[i].content # Flatten(ContentDeltas(req[r].received))

\* C2: when an error event arrives for a request whose accumulated content is
\* still empty, the request's message is removed from the list.
C2_ErrorOnEmptyRemovesMessage ==
    \A r \in 1 .. Len(req) :
       (LastIsError(r) /\ req[r].accumulatedContent = <<>>) => MessagesOf(r) = {}

\* C3: when an error event arrives after non-empty content of the same request,
\* the message stays in the list with its partial content, and the error state
\* is the event's error message.
C3_ErrorAfterContentSurfaces ==
    LET r == Len(req)
    IN  (r > 0 /\ LastIsError(r) /\ req[r].accumulatedContent # <<>> /\ cleared = -1)
           => /\ MessagesOf(r) # {}
              /\ \A i \in MessagesOf(r) :
                    messages[i].content =
                       processApplyCodeBlocksForDisplay(req[r].accumulatedContent,
                                                        req[r].agentMode).display
              /\ error = Last(req[r].received).error

\* C4: the apply callback is invoked at most once for a request, however many
\* times the extractor runs on the growing accumulated content.
C4_AppliedAtMostOnce ==
    \A r \in 1 .. Len(req) : Len(req[r].applyCalls) <= 1

\* C4 witness: the callback was invoked once, and the extractor has run again,
\* for a later content event, on content that already held the complete block.
C4_Witness ==
    \E r \in 1 .. Len(req) :
       /\ Len(req[r].applyCalls) = 1
       /\ req[r].received # <<>>
       /\ LET ev == Last(req[r].received)
              acc == req[r].accumulatedContent
              before == SubSeq(acc, 1, Len(acc) - Len(ev.content))
          IN  /\ ~Truthy(ev.error)
              /\ Truthy(ev.content)
              /\ processApplyCodeBlocksForDisplay(before, TRUE).hasCompleteBlock
              /\ Truthy(processApplyCodeBlocksForDisplay(before, TRUE).extractedCode)

\* C5 (as stated): with agent mode on and the callback registered, if the
\* accumulated content holds a complete block, then by the end of the stream
\* the callback has been invoked exactly once.
C5_CompleteBlockApplied ==
    \A r \in 1 .. Len(req) :
       (/\ req[r].pc = "ended"
        /\ req[r].agentMode
        /\ req[r].onApplyCode
        /\ HoldsCompleteBlock(req[r].accumulatedContent))
          => Len(req[r].applyCalls) = 1

\* C5 (amended): with agent mode on when the request was sent and the callback
\* registered, if the accumulated content holds a complete block and the text
\* between its first start sentinel and the first end sentinel after it is not
\* empty once trimmed, then by the end of the stream the callback has been
\* invoked exactly once, with that trimmed text.
C5_NonEmptyBlockApplied ==
    \A r \in 1 .. Len(req) :
       LET acc == req[r].accumulatedContent
           i == CHOOSE p \in Occurrences(acc, APPLY_CODE_START) :
                   \A q \in Occurrences(acc, APPLY_CODE_START) : p <= q
           ends == {q \in Occurrences(acc, APPLY_CODE_END) :
                       q >= i + Len(APPLY_CODE_START)}
           j == CHOOSE p \in ends : \A q \in ends : p <= q
           enclosed == Trim(SubSeq(acc, i + Len(APPLY_CODE_START), j - 1))
       IN  (/\ req[r].pc = "ended"
            /\ req[r].agentMode
            /\ req[r].onApplyCode
            /\ HoldsCompleteBlock(acc)
            /\ enclosed # <<>>)
              => req[r].applyCalls = <<enclosed>>

\* C5 witness: a stream with agent mode on has ended, the accumulated content
\* holds a complete block, and the callback was invoked with its code.
C5_Witness ==
    \E r \in 1 .. Len(req) :
       /\ req[r].pc = "ended"
       /\ req[r].agentMode
       /\ HoldsCompleteBlock(req[r].accumulatedContent)
       /\ req[r].applyCalls = <<<<"x">>>>
       /\ code = <<"x">>

\* C6: the extractor is idempotent: run on the display it returned, it returns
\* that display again, with hasCompleteBlock false and no extracted code.
C6_ExtractorIdempotent ==
    Len(exOut) = 2 =>
       /\ exOut[2].display = exOut[1].display
       /\ ~exOut[2].hasCompleteBlock
       /\ exOut[2].extractedCode = Undefined

\* C7: after clearChat and the effects it triggers, storage holds no entry
\* under the chat-history key.
C7_ClearRemovesStoredHistory == [][clearChat => storage' = Absent]_vars

\* C8: clearChat sets the list to exactly the seed message, and the list stays
\* exactly the seed message until the next send, whatever stream events of a
\* request in flight arrive in between.
C8_ClearedListStaysSeed == cleared >= 0 => messages = <<DEFAULT_MESSAGE>>

\* C8 witness: the chat was cleared while a request was in flight, and the
\* request has since parsed a content event.
C8_Witness ==
    /\ cleared >= 0
    /\ TotalReceived > cleared
    /\ \E r \in 1 .. Len(req) :
          /\ req[r].received # <<>>
          /\ ~Truthy(Last(req[r].received).error)
          /\ Truthy(Last(req[r].received).content)

\* the positions of the newlines of a text, and its lines by position
NewlinesOf(text) == {p \in 1 .. Len(text) : text[p] = "\n"}

LineCount(text) == Cardinality(NewlinesOf(text)) + 1

\* line n (1-based) of a text, the empty string when the text has no line n
LineOf(text, n) ==
    LET nls == NewlinesOf(text)
        nth(k) == CHOOSE p \in nls : Cardinality({q \in nls : q < p}) = k - 1
        first == IF n = 1 THEN 1 ELSE nth(n - 1) + 1
        last == IF n = LineCount(text) THEN Len(text) ELSE nth(n) - 1
    IN  IF n > LineCount(text) THEN <<>> ELSE SubSeq(text, first, last)

\* C9: computeChangedLines returns exactly the 1-indexed positions, up to the
\* longer line count, at which the lines of the two texts differ, a missing
\* line counting as the empty string; diff(a, a) is empty, diff("x\ny", "x\nz")
\* is {2} and diff("a", "a\nb") is {2}.
C9_ChangedLinesExact ==
    /\ diffOut.done =>
          /\ diffOut.changedLines =
                {n \in 1 .. Max(LineCount(diffIn.oldCode), LineCount(diffIn.newCode)) :
                    LineOf(diffIn.oldCode, n) # LineOf(diffIn.newCode, n)}
          /\ diffIn.oldCode = diffIn.newCode => diffOut.changedLines = {}
    /\ computeChangedLines(<<"x", "\n", "y">>, <<"x", "\n", "z">>) = {2}
    /\ computeChangedLines(<<"a">>, <<"a", "\n", "b">>) = {2}

\* C9 witness: the diff was computed for a text and a longer text with a
\* trailing line added, and flags that line only.
C9_Witness ==
    /\ diffOut.done
    /\ LineCount(diffIn.oldCode) < LineCount(diffIn.newCode)
    /\ IsPrefix(diffIn.oldCode, diffIn.newCode)
    /\ diffOut.changedLines = {LineCount(diffIn.newCode)}

\* C10: every newline-terminated line of the stream that starts with the tag
\* and whose remainder is valid JSON yields its event, however the stream is
\* divided into chunks (up to the done event, where the decoder stops).
C10_EveryValidLineYieldsItsEvent ==
    \A r \in 1 .. Len(req) :
       IsPrefix(EventsOfLines(TerminatedLines(req[r].wire)), req[r].received)

\* request r has parsed a done event
DoneObserved(r) ==
    \E i \in 1 .. Len(req[r].received) :
       req[r].received[i].done /\ ~Truthy(req[r].received[i].error)

\* C11: the decoder stops at a done event: once a request has parsed a done
\* event, no further chunk of its stream is read, no later event of the
\* stream is handled and the apply callback is not invoked for it again.
C11_StopsAtDone ==
    [][\A r \in 1 .. Len(req) :
          DoneObserved(r) =>
             /\ req'[r].wire = req[r].wire
             /\ req'[r].received = req[r].received
             /\ req'[r].applyCalls = req[r].applyCalls
             /\ (req'[r] # req[r] => messages' = messages)]_vars

\* C12: when the bytes of a payload have been read in chunks, whatever the
\* sizes of the chunks and also when a chunk ends inside a multi-byte
\* character, the text decoded from the chunks in order is the decoding of the
\* whole byte sequence, which is the payload, and holds no replacement
\* character.
C12_ChunkedDecodingIsWhole ==
    dec.rest = <<>> =>
       /\ dec.out = DecodeWhole(DecoderReset, EncodeText(dec.text)).out
       /\ dec.out = dec.text
       /\ \A i \in 1 .. Len(dec.out) : <<dec.out[i]>> # Replacement

\* C12 witness: a payload was read to its end in chunks of which one ended
\* inside a character of four bytes, and the text decoded is the payload.
C12_Witness ==
    /\ dec.rest = <<>>
    /\ dec.cut
    /\ \E i \in 1 .. Len(dec.text) : Len(EncodeCodePoint(dec.text[i])) = 4
    /\ dec.out = dec.text

\* a line that starts with the tag and whose remainder is not valid JSON
IsMalformed(line) ==
    /\ Len(line) >= 1
    /\ line[1] = TAG
    /\ ~(Len(line) = 3 /\ line[2].k = "body" /\ line[3] = CLOSE)

\* the lines of the chunk request r reads in the step
ChunkLines(r) ==
    SplitFrom(SubSeq(req'[r].wire, Len(req[r].wire) + 1, Len(req'[r].wire)),
              NL, 1, <<>>)

\* C13: a tagged line whose remainder is not valid JSON is skipped silently.
\* A chunk with such lines has the effect of the same chunk without them, on
\* the message list, the accumulated content and thoughts, the events handled,
\* the apply callback and the document, so the lines after them are handled;
\* when the chunk has no other tagged line it changes none of these; and the
\* error state is unchanged.
C13_MalformedLineSkipped ==
    [][\A r \in 1 .. Len(req) :
          req'[r].skipped > req[r].skipped =>
             LET kept == SelectSeq(ChunkLines(r), LAMBDA l : ~IsMalformed(l))
                 rq == [req[r] EXCEPT !.wire = req'[r].wire,
                                      !.buffer = req'[r].buffer,
                                      !.skipped = req'[r].skipped]
                 ref == ProcessLines(kept, LoopState(messages, isStreaming, code, rq))
             IN  /\ messages' = ref.messages
                 /\ req'[r] = ref.rq
                 /\ code' = ref.code
                 /\ error' = error
                 /\ (\A i \in 1 .. Len(kept) : kept[i] = <<>> \/ kept[i][1] # TAG)
                       => /\ messages' = messages
                          /\ req'[r].accumulatedContent = req[r].accumulatedContent
                          /\ req'[r].accumulatedThoughts = req[r].accumulatedThoughts
                          /\ req'[r].received = req[r].received]_vars

\* C13 witness: a request has skipped a tagged line that did not parse, has
\* handled the content event of the line after it, and no error is shown.
C13_Witness ==
    \E r \in 1 .. Len(req) :
       /\ req[r].skipped >= 1
       /\ IsPrefix(MalformedLine \o Line(Event(<<"a">>, <<>>, FALSE, <<>>)), req[r].wire)
       /\ req[r].received = <<Event(<<"a">>, <<>>, FALSE, <<>>)>>
       /\ \E i \in MessagesOf(r) : messages[i].content = <<"a">>
       /\ error = Null

\* the thought deltas of the thought events among the events parsed
RECURSIVE ThoughtDeltas(_)
ThoughtDeltas(events) ==
    IF events = <<>> THEN <<>>
    ELSE IF ~Truthy(Head(events).error) /\ Truthy(Head(events).thought)
         THEN <<Head(events).thought>> \o ThoughtDeltas(Tail(events))
         ELSE ThoughtDeltas(Tail(events))

\* an event that carries a thought and nothing else
IsThoughtOnly(ev) ==
    /\ Truthy(ev.thought)
    /\ ~Truthy(ev.content)
    /\ ~Truthy(ev.error)
    /\ ~ev.done

\* C14: after each thought event of a request, the thoughts field of the
\* request's message (while it is in the list) is the concatenation, in
\* arrival order, of the thought deltas received so far, and its
\* currentThought field is the latest thought delta; before the first thought
\* event both are absent; and a step in which the request handles thought
\* events only leaves the content of its message unchanged.
C14_ThoughtsAccumulate ==
    /\ [](\A r \in 1 .. Len(req) :
            \A i \in MessagesOf(r) :
               LET deltas == ThoughtDeltas(req[r].received)
               IN  IF deltas = <<>>
                   THEN /\ messages[i].thoughts = Undefined
                        /\ messages[i].currentThought = Undefined
                   ELSE /\ messages[i].thoughts = Flatten(deltas)
                        /\ messages[i].currentThought = Last(deltas))
    /\ [][\A r \in 1 .. Len(req) :
            (/\ Len(req'[r].received) > Len(req[r].received)
             /\ \A n \in (Len(req[r].received) + 1) .. Len(req'[r].received) :
                   IsThoughtOnly(req'[r].received[n]))
               => /\ Len(messages') = Len(messages)
                  /\ \A i \in MessagesOf(r) :
                        messages'[i].content = messages[i].content]_vars

\* C14 witness: a request has handled two thought events; its message holds
\* the two thought deltas concatenated and the latest delta.
C14_Witness ==
    \E r \in 1 .. Len(req) :
       /\ Len(ThoughtDeltas(req[r].received)) >= 2
       /\ \E i \in MessagesOf(r) :
             /\ messages[i].thoughts = <<"t", "t">>
             /\ messages[i].currentThought = <<"t">>

\* C15: the extractor returns extracted code, and hasCompleteBlock true, only
\* when the text holds the start sentinel and, after it, the end sentinel, and
\* then it does; in every other case extractedCode is absent and
\* hasCompleteBlock is false; and a text without the start sentinel is passed
\* through unchanged.
C15_CodeOnlyWhenBothSentinels ==
    Len(exOut) >= 1 =>
       /\ exOut[1].hasCompleteBlock <=> HoldsCompleteBlock(exIn.raw)
       /\ exOut[1].extractedCode # Undefined <=> exOut[1].hasCompleteBlock
       /\ Occurrences(exIn.raw, APPLY_CODE_START) = {} => exOut[1].display = exIn.raw

\* C15 witness: the extractor has run on a text that holds an end sentinel and,
\* after it, a start sentinel with no end sentinel after that one, and has
\* returned no code.
C15_Witness ==
    /\ Len(exOut) >= 1
    /\ Occurrences(exIn.raw, APPLY_CODE_END) # {}
    /\ Occurrences(exIn.raw, APPLY_CODE_START) # {}
    /\ ~HoldsCompleteBlock(exIn.raw)
    /\ ~exOut[1].hasCompleteBlock
    /\ exOut[1].extractedCode = Undefined

\* the position (1-based) of the first start sentinel of a text that has one
FirstStart(str) ==
    CHOOSE p \in Occurrences(str, APPLY_CODE_START) :
       \A q \in Occurrences(str, APPLY_CODE_START) : p <= q

\* the text before the first start sentinel
PrefixOf(str) == SubSeq(str, 1, FirstStart(str) - 1)

\* a text without the whitespace at its end, and without that at its beginning
StripEnd(str) ==
    LET solid == {k \in 1 .. Len(str) : str[k] \notin Whitespace}
        n == IF solid = {} THEN 0 ELSE CHOOSE k \in solid : \A j \in solid : j <= k
    IN  SubSeq(str, 1, n)

StripStart(str) ==
    LET solid == {k \in 1 .. Len(str) : str[k] \notin Whitespace}
        n == IF solid = {} THEN Len(str) + 1
             ELSE CHOOSE k \in solid : \A j \in solid : k <= j
    IN  SubSeq(str, n, Len(str))

\* the extractor's streaming state: a start sentinel and no end sentinel after it
IsStreamingText(str) ==
    Occurrences(str, APPLY_CODE_START) # {} /\ ~HoldsCompleteBlock(str)

EndsWith(str, suffix) ==
    Len(str) >= Len(suffix)
       /\ SubSeq(str, Len(str) - Len(suffix) + 1, Len(str)) = suffix

\* C16 (as stated): in the streaming state the display is the text before the
\* start sentinel, verbatim, followed by the applying marker if and only if
\* reveal is true, and no code is returned.
C16_StreamingShowsPrefixVerbatim ==
    (Len(exOut) >= 1 /\ IsStreamingText(exIn.raw)) =>
       /\ IsPrefix(PrefixOf(exIn.raw), exOut[1].display)
       /\ exIn.showMarker =>
             /\ EndsWith(exOut[1].display, APPLYING_CODE_MARKER)
             /\ Len(exOut[1].display) >=
                   Len(PrefixOf(exIn.raw)) + Len(APPLYING_CODE_MARKER)
       /\ ~exIn.showMarker => exOut[1].display = PrefixOf(exIn.raw)
       /\ exOut[1].extractedCode = Undefined
       /\ ~exOut[1].hasCompleteBlock

\* C16 (amended): in the streaming state the display is the text before the
\* start sentinel without the whitespace at its end, followed, if and only if
\* reveal is true, by the applying marker, with a blank line between the two
\* when the text is not empty; nothing from the start sentinel onwards is
\* displayed and no code is returned.
C16_StreamingShowsTrimmedPrefix ==
    (Len(exOut) >= 1 /\ IsStreamingText(exIn.raw)) =>
       LET shown == StripEnd(PrefixOf(exIn.raw))
       IN  /\ exOut[1].display =
                 IF ~exIn.showMarker THEN shown
                 ELSE IF shown = <<>> THEN APPLYING_CODE_MARKER
                 ELSE shown \o <<"\n", "\n">> \o APPLYING_CODE_MARKER
           /\ Occurrences(exOut[1].display, APPLY_CODE_START) = {}
           /\ exOut[1].extractedCode = Undefined
           /\ ~exOut[1].hasCompleteBlock

\* C16 witness: the extractor has run with reveal false on a text in the
\* streaming state whose text before the start sentinel ends with whitespace,
\* and the display is that text without the whitespace.
C16_Witness ==
    /\ Len(exOut) >= 1
    /\ IsStreamingText(exIn.raw)
    /\ ~exIn.showMarker
    /\ PrefixOf(exIn.raw) = <<"a", " ">>
    /\ exOut[1].display = <<"a">>

\* the position (1-based) of the first end sentinel after the first start
\* sentinel, in a text that holds a complete block
FirstEnd(str) ==
    LET ends == {q \in Occurrences(str, APPLY_CODE_END) :
                    q >= FirstStart(str) + Len(APPLY_CODE_START)}
    IN  CHOOSE p \in ends : \A q \in ends : p <= q

\* the text enclosed in the block, and the text after the block
EnclosedOf(str) ==
    SubSeq(str, FirstStart(str) + Len(APPLY_CODE_START), FirstEnd(str) - 1)

SuffixOf(str) == SubSeq(str, FirstEnd(str) + Len(APPLY_CODE_END), Len(str))

\* two texts with a blank line between them, or the one that is not empty
Paragraphs(a, b) ==
    IF a = <<>> THEN b ELSE IF b = <<>> THEN a ELSE a \o <<"\n", "\n">> \o b

\* C17: for a text that holds a start sentinel and an end sentinel after it,
\* the extractor returns as code the text between the first start sentinel and
\* the first end sentinel after it, without the whitespace around it, and as
\* display the text before the block and the text after the block (without
\* the whitespace next to the block) joined around the completion marker, the
\* marker being there only when reveal is true; the sentinels of the block and
\* the enclosed text are not in the display: the sentinels the display holds
\* are those of the text before and of the text after the block.
C17_CompleteBlockExtracted ==
    (Len(exOut) >= 1 /\ HoldsCompleteBlock(exIn.raw)) =>
       LET before == StripEnd(PrefixOf(exIn.raw))
           after == StripStart(SuffixOf(exIn.raw))
           marker == IF exIn.showMarker THEN APPLIED_CODE_MARKER ELSE <<>>
       IN  /\ exOut[1].hasCompleteBlock
           /\ exOut[1].extractedCode = StripStart(StripEnd(EnclosedOf(exIn.raw)))
           /\ exOut[1].display = Paragraphs(Paragraphs(before, marker), after)
           /\ Cardinality(Occurrences(exOut[1].display, APPLY_CODE_START)) =
                 Cardinality(Occurrences(after, APPLY_CODE_START))
           /\ Cardinality(Occurrences(exOut[1].display, APPLY_CODE_END)) =
                 Cardinality(Occurrences(before, APPLY_CODE_END))
                    + Cardinality(Occurrences(after, APPLY_CODE_END))

\* C17 witness: the extractor has run with reveal true on a text with text
\* before a block that encloses "a"; the code is "a" and the display is the
\* text before the block, a blank line and the completion marker.
C17_Witness ==
    /\ Len(exOut) >= 1
    /\ exIn.showMarker
    /\ HoldsCompleteBlock(exIn.raw)
    /\ PrefixOf(exIn.raw) # <<>>
    /\ exOut[1].extractedCode = <<"a">>
    /\ exOut[1].display =
          StripEnd(PrefixOf(exIn.raw)) \o <<"\n", "\n">> \o APPLIED_CODE_MARKER

\* C18: two requests in flight at once interleave safely: the requests have
\* distinct message ids, no two messages of the list carry the same id, and a
\* step in which a request reads a chunk of its stream leaves every message
\* that does not carry the request's id, the other request's message among
\* them, as it was.
C18_InterleaveSafely ==
    /\ [](\A r1, r2 \in 1 .. Len(req) :
            r1 # r2 => req[r1].aiMessageId # req[r2].aiMessageId)
    /\ [](\A i, j \in 1 .. Len(messages) :
            i # j => messages[i].id # messages[j].id)
    /\ [][\A r \in 1 .. Len(req) :
            req'[r].wire # req[r].wire =>
               /\ Len(messages') = Len(messages)
               /\ \A i \in 1 .. Len(messages) :
                     messages[i].id # req[r].aiMessageId
                        => messages'[i] = messages[i]]_vars

\* the requests that are outstanding
InFlight == {r \in 1 .. Len(req) : req[r].pc # "ended"}

\* C19: with every send made through handleSend, at most one request is in
\* flight at any time and isLoading is true while it is; a step made while a
\* request is outstanding, a send attempted among them, adds no message to the
\* list and issues no request, and the send that returns at the guard changes
\* nothing of the panel.
C19_OneRequestInFlight ==
    /\ [](Cardinality(InFlight) <= 1 /\ (InFlight # {} => isLoading))
    /\ [][InFlight # {} =>
            /\ Len(req') = Len(req)
            /\ Len(messages') <= Len(messages)
            /\ refused' # refused =>
                  UNCHANGED <<messages, isLoading, isStreaming, error, req, storage,
                              code>>]_vars

\* C19 witness: a send was attempted while a request was outstanding, and the
\* request is still the only one.
C19_Witness ==
    /\ refused = "busy"
    /\ Len(req) = 1
    /\ InFlight = {1}
    /\ Len(messages) = 3

\* request r has parsed an error event
ErrorEvents(r) ==
    {i \in 1 .. Len(req[r].received) : Truthy(req[r].received[i].error)}

\* C20: when the latest request has ended, isLoading and isStreaming are
\* false, so that a new send is accepted; a request that ends at the fetch
\* (the transport failed or the status was an error) leaves an error message
\* shown, and so does a request whose stream carried an error event.
C20_EndsReusableWithVisibleError ==
    /\ [](LET r == Len(req)
          IN  (r > 0 /\ req[r].pc = "ended") =>
                 /\ ~isLoading
                 /\ ~isStreaming
                 /\ ErrorEvents(r) # {} => error # Null)
    /\ [][\A r \in 1 .. Len(req) :
            (req[r].pc = "fetch" /\ req'[r].pc = "ended") => error' # Null]_vars

-----------------------------------------------------------------------------
(* The editor: highlights, saving and loading, auto-save *)

HighlightTimers == {t \in editor.timers : t.kind = "highlight"}
SaveTimers == {t \in editor.timers : t.kind = "save"}

\* C24, as stated: a highlight set by handleHighlightChanges is cleared 5
\* seconds later, and when a new diff arrives while the timer of a highlight
\* is pending, an empty set is dispatched to cancel the pending highlight
\* and the old timer is dropped.
C24_NewDiffDispatchesEmptySet ==
    [][\A p \in HighlightPairs :
          handleHighlightChanges(p[1], p[2]) /\ HighlightTimers # {}
             => /\ editor.cancelled' = HighlightTimers
                /\ \E i \in 1 .. Len(editor.dispatched') : editor.dispatched'[i] = {}]_vars

\* C24, amended: at most one clear timer is pending, it is the one the last
\* handleHighlightChanges set and it is due 5 seconds after that call; a
\* highlight that is set has its timer pending, and the timer empties the set
\* and the decorations when it fires.  When a new diff arrives while a timer
\* is pending, the old timer is dropped and the new set is dispatched, alone,
\* and replaces the decorations of the old one.
C24_HighlightClearedByLatestTimer ==
    /\ [](/\ Cardinality(HighlightTimers) <= 1
          /\ \A t \in HighlightTimers :
                /\ t.id = editor.highlightTimeoutRef
                /\ t.due = editor.lastHighlight + HIGHLIGHT_TIMEOUT
                /\ editor.time <= t.due
          /\ editor.highlightedLines # {} => HighlightTimers # {}
          /\ editor.decorations \subseteq editor.highlightedLines)
    /\ [][\A t \in editor.timers :
             HighlightFires(t)
                => /\ editor.time = editor.lastHighlight + HIGHLIGHT_TIMEOUT
                   /\ editor.highlightedLines' = {}
                   /\ editor.decorations' = {}]_vars
    /\ [][\A p \in HighlightPairs :
             handleHighlightChanges(p[1], p[2])
                => /\ editor.cancelled' = HighlightTimers
                   /\ editor.dispatched' = <<computeChangedLines(p[1], p[2])>>
                   /\ editor.highlightedLines' = computeChangedLines(p[1], p[2])
                   /\ editor.decorations' =
                          Decorate(computeChangedLines(p[1], p[2]), code)]_vars

\* a new diff has just arrived while the timer of a highlight was pending: the
\* old timer is dropped, the new highlight is set, and no empty set was
\* dispatched
C24_Witness ==
    /\ editor.cancelled # {}
    /\ \A t \in editor.cancelled : t.kind = "highlight"
    /\ editor.highlightedLines # {}
    /\ editor.dispatched = <<editor.highlightedLines>>
    /\ editor.lastHighlight > 0

\* C26, as stated: initializing the editor gives the text stored under the
\* document key, whatever text was saved, and the default document only when
\* the key holds nothing.
C26_SavedDocumentLoadsBack ==
    [][Reload => /\ editor.stored # <<>> => code' = editor.stored[1]
                 /\ editor.stored = <<>> => code' = DEFAULT_LATEX]_vars

\* C30: once the editor is mounted, hasUnsavedChanges is true exactly when
\* the document differs from the text last saved or loaded; while it is true
\* one auto-save timer is pending, set by the last edit for the document of
\* that edit and due 10 seconds after it, and at most one is pending at any
\* time; an edit drops the pending timer; when the timer fires, 10 seconds
\* after the last edit, the document is written to storage and
\* hasUnsavedChanges is false.
C30_AutoSaveAfterLastEdit ==
    /\ [](editor.mounted
            => /\ editor.hasUnsavedChanges <=> code # editor.savedCodeRef
               /\ Cardinality(SaveTimers) <= 1
               /\ \A t \in SaveTimers :
                     /\ t.due = editor.lastEdit + AUTO_SAVE_DELAY
                     /\ editor.time <= t.due
                     /\ t.code = code
               /\ editor.hasUnsavedChanges
                     => \E t \in SaveTimers : t.id = editor.autoSaveTimer)
    /\ [][\A t \in editor.timers :
             AutoSaveFires(t)
                => /\ editor.time = editor.lastEdit + AUTO_SAVE_DELAY
                   /\ editor.stored' = <<code>>
                   /\ ~editor.hasUnsavedChanges']_vars
    /\ [][\A value \in EditorDocs :
             onChange(value) => /\ editor.cancelled' = SaveTimers
                                /\ \A t \in SaveTimers' :
                                      t.due = editor.time + AUTO_SAVE_DELAY]_vars

\* the auto-save timer of an edit has just fired, 10 seconds after that edit:
\* the document is in storage and nothing is unsaved
C30_Witness ==
    /\ editor.mounted
    /\ editor.lastEdit > 0
    /\ editor.time = editor.lastEdit + AUTO_SAVE_DELAY
    /\ SaveTimers = {}
    /\ editor.stored = <<code>>
    /\ ~editor.hasUnsavedChanges
    /\ code = <<"a", "\n", "b">>

-----------------------------------------------------------------------------
(* The chat history in storage, the messages kept, and the review of an     *)
(* applied block                                                            *)

\* the ids of a message list, in order
Ids(ms) == [i \in 1 .. Len(ms) |-> ms[i].id]

C22_LoadsOnceAndFallsBack ==
    /\ [][Mount => /\ messages' = IF storage.kind = "array" /\ storage.value # <<>>
                                   THEN storage.value
                                   ELSE <<DEFAULT_MESSAGE>>
                   /\ error' = Null
                   /\ isInitialized']_vars
    /\ [][isInitialized => loaded' = loaded]_vars
    /\ [][\A stored \in StoredHistories :
             ExternalWrite(stored) => messages' = messages]_vars

\* the panel is initialized over a stored text that is not JSON: the list is
\* the seed message and no error is shown
C22_Witness ==
    /\ isInitialized
    /\ loaded = "text"
    /\ messages = <<DEFAULT_MESSAGE>>
    /\ error = Null
    /\ req = <<>>

\* the step ends request r with an error
EndsWithError(r) ==
    /\ req[r].pc # "ended"
    /\ req'[r].pc = "ended"
    /\ error' # Null

\* the step removes the message of request r, whose content is empty, and
\* nothing else
RemovesEmptyOf(r) ==
    /\ Ids(messages') = SelectSeq(Ids(messages), LAMBDA id : id # req[r].aiMessageId)
    /\ \A i \in 1 .. Len(messages) :
          messages[i].id = req[r].aiMessageId => messages[i].content = <<>>

\* C23: once the panel is initialized, every step keeps the messages of the
\* list at their places (it may add messages at the end), but for clearChat,
\* which resets the list to the seed message, and the end of a request with
\* an error, which removes the message of that request while its content is
\* empty and nothing else; a send, a stream event, the end of a stream, an
\* accept and a reject remove nothing.
C23_RemovedOnlyByClearOrEmptyError ==
    /\ [][isInitialized
             => \/ IsPrefix(Ids(messages), Ids(messages'))
                \/ messages' = <<DEFAULT_MESSAGE>> /\ cleared' # -1
                \/ \E r \in 1 .. Len(req) : EndsWithError(r) /\ RemovesEmptyOf(r)]_vars
    /\ [][(\/ \E input \in Inputs : SendClick(input, Clock)
           \/ \E r \in 1 .. Len(req), written \in ReviewWrites :
                 \E k \in 1 .. (Len(req[r].buffer) + Len(written)) :
                    ReadChunk(r, written, k)
           \/ \E r \in 1 .. Len(req) : ReadDone(r)
           \/ \E i \in 1 .. Len(messages) : handleAccept(i) \/ handleReject(i))
             => IsPrefix(Ids(messages), Ids(messages'))]_vars

\* a request has ended with an error while its message was empty: the message
\* is gone, the user's message is still in the list
C23_Witness ==
    /\ \E r \in 1 .. Len(req) :
          /\ req[r].pc = "ended"
          /\ MessagesOf(r) = {}
          /\ \E i \in 1 .. Len(messages) : messages[i].id = req[r].aiMessageId - 1
    /\ error # Null
    /\ cleared = -1

\* C28: the Reject button of a message sets the editor document to the text
\* the request of the message captured when it was sent, and marks the
\* message rejected; accept and reject act on undecided messages only, and no
\* step changes the decision of a message that is decided.
C28_RejectRevertsAndDecisionIsFinal ==
    /\ [][\A i \in 1 .. Len(messages) :
             handleReject(i)
                => /\ \E r \in 1 .. Len(req) :
                         /\ req[r].aiMessageId = messages[i].id
                         /\ req[r].codeApplied
                         /\ code' = req[r].latexCode
                   /\ messages'[i].codeAccepted = "false"]_vars
    /\ [][\A i \in 1 .. Len(messages) :
             handleAccept(i) \/ handleReject(i)
                => messages[i].codeAccepted = "undefined"]_vars
    /\ [][\A i \in 1 .. Len(messages) :
             messages[i].codeAccepted # "undefined"
                => \A j \in 1 .. Len(messages') :
                      messages'[j].id = messages[i].id
                         => messages'[j].codeAccepted = messages[i].codeAccepted]_vars

\* a message whose block was applied has been rejected: the document is the
\* text captured at the send again, not the block
C28_Witness ==
    \E i \in 1 .. Len(messages) :
       /\ messages[i].codeAccepted = "false"
       /\ Truthy(messages[i].appliedCode)
       /\ code = messages[i].previousCode
       /\ code # messages[i].appliedCode

-----------------------------------------------------------------------------
(* Agent mode, the apply callback and the pass of the done event *)

\* a pass of the extractor has set the content of the message of request r
PassRan(r) ==
    \E k \in 1 .. Len(req[r].received) :
       Truthy(req[r].received[k].content) \/ req[r].received[k].done

\* the last event request r has parsed is a done event
DoneHandled(r) == req[r].received # <<>> /\ Last(req[r].received).done

C27_CompleteBlockAppliedAtDone ==
    \A r \in 1 .. Len(req) :
       DoneHandled(r)
          => /\ \A i \in MessagesOf(r) :
                   messages[i].content =
                      processApplyCodeBlocksForDisplay(
                          req[r].accumulatedContent, req[r].agentMode).display
             /\ Len(req[r].applyCalls) <= 1
             /\ req[r].agentMode /\ req[r].onApplyCode
                   /\ HoldsCompleteBlock(req[r].accumulatedContent)
                   => req[r].codeApplied

\* C27, amended: when the done event has been handled, the content of the
\* message is the display of the accumulated content; with agent mode on and
\* the callback passed, a complete block whose code is not empty once trimmed
\* has been applied, and no block is applied more than once, nor at all when
\* its code is empty.
C27_NonEmptyBlockAppliedOnceAtDone ==
    \A r \in 1 .. Len(req) :
       DoneHandled(r)
          => LET processed == processApplyCodeBlocksForDisplay(
                                  req[r].accumulatedContent, req[r].agentMode)
             IN  /\ \A i \in MessagesOf(r) : messages[i].content = processed.display
                 /\ Len(req[r].applyCalls) <= 1
                 /\ req[r].codeApplied <=> req[r].applyCalls # <<>>
                 /\ req[r].codeApplied
                       <=> /\ req[r].agentMode
                           /\ req[r].onApplyCode
                           /\ processed.hasCompleteBlock
                           /\ Truthy(processed.extractedCode)

\* the done event has been handled after the block of the stream was applied:
\* the block was applied once
C27_Witness ==
    \E r \in 1 .. Len(req) :
       /\ DoneHandled(r)
       /\ req[r].agentMode
       /\ req[r].codeApplied
       /\ req[r].applyCalls = <<<<"x">>>>
       /\ code = <<"x">>

\* C29: the agent mode of a request is the one in force at its send: the
\* content of its message is the display made with that mode, the callback is
\* invoked only if it was on, and a complete block with code is applied if it
\* was on, whatever the agent mode of the panel has become since.
C29_AgentModeOfTheSend ==
    \A r \in 1 .. Len(req) :
       LET processed == processApplyCodeBlocksForDisplay(
                            req[r].accumulatedContent, req[r].agentMode)
       IN  /\ PassRan(r)
              => \A i \in MessagesOf(r) : messages[i].content = processed.display
           /\ req[r].applyCalls # <<>> => req[r].agentMode
           /\ ~req[r].agentMode
              => \A i \in MessagesOf(r) :
                    /\ Occurrences(messages[i].content, APPLYING_CODE_MARKER) = {}
                    /\ Occurrences(messages[i].content, APPLIED_CODE_MARKER) = {}
                    /\ messages[i].appliedCode = Undefined
           /\ req[r].agentMode /\ req[r].onApplyCode /\ PassRan(r)
                 /\ processed.hasCompleteBlock /\ Truthy(processed.extractedCode)
              => req[r].codeApplied

\* agent mode was on at the send and is off now, the stream is still read,
\* and the block has been applied and marked
C29_Witness ==
    \E r \in 1 .. Len(req) :
       /\ req[r].pc = "read"
       /\ req[r].agentMode
       /\ ~agentMode
       /\ req[r].codeApplied
       /\ \E i \in MessagesOf(r) :
             Occurrences(messages[i].content, APPLIED_CODE_MARKER) # {}

====
